---- MODULE Spec2Model ----
(***************************************************************************)
(* The program builder of console/program (Program::add_interface,         *)
(* add_record, add_function and the name predicates), as a state machine   *)
(* over the five maps of a Program.                                        *)
(***************************************************************************)
EXTENDS Integers, Sequences, FiniteSets, TLC

VARIABLES identifiers, interfaces, records, functions, function_registers, last, pinned, calls

vars == <<identifiers, interfaces, records, functions, function_registers, last, pinned, calls>>

(* TLC keeps the fields of a record in the order in which their names      *)
(* first occur in the module, and it puts a record that was written in     *)
(* another order into that order in place, the first time it compares the  *)
(* record: a second worker may then read the record half sorted. The field *)
(* names of the records of this module are therefore named here once, in   *)
(* the order in which every record below writes them.                      *)
FieldOrder ==
    [op |-> TRUE, pc |-> TRUE, name |-> TRUE, tag |-> TRUE,
     id |-> TRUE, kind |-> TRUE, mode |-> TRUE, type |-> TRUE,
     n |-> TRUE, path |-> TRUE, members |-> TRUE, owner |-> TRUE,
     balance |-> TRUE, entries |-> TRUE, plaintext |-> TRUE, record |-> TRUE,
     register |-> TRUE, value_type |-> TRUE, value |-> TRUE, opcode |-> TRUE,
     operands |-> TRUE, destination |-> TRUE, declaration |-> TRUE, prog |-> TRUE,
     inputs |-> TRUE, instructions |-> TRUE, destinations |-> TRUE, outputs |-> TRUE,
     key |-> TRUE, val |-> TRUE, map |-> TRUE, is_some |-> TRUE,
     msg |-> TRUE, subject |-> TRUE, program |-> TRUE, register_types |-> TRUE,
     registers |-> TRUE, types |-> TRUE, lines |-> TRUE, component |-> TRUE,
     components |-> TRUE, stacks |-> TRUE, next |-> TRUE, stack |-> TRUE,
     result |-> TRUE, executed |-> TRUE, flag |-> TRUE, text |-> TRUE,
     met |-> TRUE, others |-> TRUE]

(***************************************************************************)
(* Bounds of the explored inputs.                                          *)
(***************************************************************************)
MaxMembers == 1
MaxInputs == 2
MaxInstructions == 2
MaxOutputs == 1
MaxReturned == 2
MaxThreads == 2

(* The newlines in a row in a text. *)
MaxNewlines == 2

(* Declaration names offered to the add operations: two free names and one *)
(* reserved keyword.                                                       *)
Names == {"a", "b", "record"}

(* Names offered as references to declared types. *)
TypeNames == {"a", "b"}

(* Member and entry names offered: one free name and one reserved keyword. *)
FieldNames == {"x", "as"}

(* Literal kinds offered (two of the sixteen). *)
LiteralKinds == {"field", "u64"}

Modes == {"Constant", "Public", "Private"}

(***************************************************************************)
(* The type model.                                                         *)
(***************************************************************************)
LiteralType(kind) == [tag |-> "Literal", id |-> kind]

InterfaceType(id) == [tag |-> "Interface", id |-> id]

PlaintextTypes == {LiteralType(k) : k \in LiteralKinds} \cup {InterfaceType(n) : n \in TypeNames}

EntryType(mode, pt) == [mode |-> mode, type |-> pt]

PlaintextValueType(mode, pt) == [tag |-> mode, type |-> pt]

RecordValueType(id) == [tag |-> "Record", id |-> id]

PlaintextRegisterType(pt) == [tag |-> "Plaintext", type |-> pt]

RecordRegisterType(id) == [tag |-> "Record", id |-> id]

Locator(n) == [tag |-> "Locator", n |-> n, path |-> <<>>]

Member(n, path) == [tag |-> "Member", n |-> n, path |-> path]

(* An input or an output of a function: a register and its declared type. *)
Declared(register, value_type) == [register |-> register, value_type |-> value_type]

(* A function: its name, its inputs, its instructions and its outputs. *)
Function(name, inputs, instructions, outputs) ==
    [name |-> name, inputs |-> inputs, instructions |-> instructions, outputs |-> outputs]

(***************************************************************************)
(* IndexMap: an insertion-ordered map, a sequence of (key, val) entries    *)
(* with distinct keys.                                                     *)
(***************************************************************************)
Keys(m) == {m[i].key : i \in 1..Len(m)}

KeySeq(m) == [i \in 1..Len(m) |-> m[i].key]

contains_key(m, k) == \E i \in 1..Len(m) : m[i].key = k

IndexOf(m, k) == CHOOSE i \in 1..Len(m) : m[i].key = k

get(m, k) == m[IndexOf(m, k)].val

(* Variant: a new key is put in front of the entries. *)
insert_in_front(m, k, v) ==
    IF contains_key(m, k)
    THEN [map |-> [m EXCEPT ![IndexOf(m, k)].val = v], is_some |-> TRUE]
    ELSE [map |-> <<[key |-> k, val |-> v]>> \o m, is_some |-> FALSE]

(* IndexMap::insert: replaces the value of an existing key in place and    *)
(* returns the old one (is_some), else appends.                            *)
insert(m, k, v) ==
    IF contains_key(m, k)
    THEN [map |-> [m EXCEPT ![IndexOf(m, k)].val = v], is_some |-> TRUE]
    ELSE [map |-> Append(m, [key |-> k, val |-> v]), is_some |-> FALSE]

(***************************************************************************)
(* The program and the result of an operation on it.                       *)
(***************************************************************************)
Program ==
    [identifiers |-> identifiers, interfaces |-> interfaces, records |-> records,
     functions |-> functions, function_registers |-> function_registers]

new ==
    [identifiers |-> <<>>, interfaces |-> <<>>, records |-> <<>>,
     functions |-> <<>>, function_registers |-> <<>>]

(* A Result<()>: Ok, or the error with the identifier its message names    *)
(* (the empty string where the message names a register or nothing).       *)
Ok == [msg |-> "Ok", subject |-> ""]

Err(msg, subject) == [msg |-> msg, subject |-> subject]

Return(P, result) == [prog |-> P, result |-> result]

(***************************************************************************)
(* The name predicates.                                                    *)
(***************************************************************************)
KEYWORDS ==
    << "const", "constant", "public", "private",
       "address", "boolean", "field", "group",
       "i8", "i16", "i32", "i64", "i128",
       "u8", "u16", "u32", "u64", "u128",
       "scalar", "string",
       "true", "false",
       "input", "output", "as", "into",
       "function", "interface", "record", "program", "global",
       "return", "break", "assert", "continue", "let", "if", "else",
       "while", "for", "switch", "case", "default", "match", "enum",
       "struct", "union", "trait", "impl", "type" >>

(* Variant: only the declared interfaces are looked at. *)
is_unique_name_among_interfaces(P, name) == ~contains_key(P.interfaces, name)

(* Variant: only the names of functions are taken. *)
is_unique_name_among_functions(P, name) == ~contains_key(P.functions, name)

is_unique_name(P, name) == ~contains_key(P.identifiers, name)

(* Variant: the scan stops one keyword early. *)
is_reserved_name_short(P, name) == \E i \in 1..(Len(KEYWORDS) - 1) : KEYWORDS[i] = name

is_reserved_name(P, name) == \E i \in 1..Len(KEYWORDS) : KEYWORDS[i] = name

(***************************************************************************)
(* add_interface.                                                          *)
(***************************************************************************)
(* The loop over the members, from member i on: the first failing check    *)
(* ends it.                                                                *)
(* Variant: a member type is looked up among all declared names. *)
RECURSIVE interface_members_any_kind(_, _, _)
interface_members_any_kind(P, members, i) ==
    IF i > Len(members) THEN Ok
    ELSE IF is_reserved_name(P, members[i].name) THEN Err("is a reserved keyword.", members[i].name)
    ELSE IF members[i].type.tag = "Literal" THEN interface_members_any_kind(P, members, i + 1)
    ELSE IF ~contains_key(P.identifiers, members[i].type.id)
        THEN Err("in interface is not defined.", members[i].type.id)
    ELSE interface_members_any_kind(P, members, i + 1)

(* Variant: the member names are not checked against the keywords. *)
RECURSIVE interface_members_unreserved(_, _, _)
interface_members_unreserved(P, members, i) ==
    IF i > Len(members) THEN Ok
    ELSE IF members[i].type.tag = "Literal" THEN interface_members_unreserved(P, members, i + 1)
    ELSE IF ~contains_key(P.interfaces, members[i].type.id)
        THEN Err("in interface is not defined.", members[i].type.id)
    ELSE interface_members_unreserved(P, members, i + 1)

RECURSIVE interface_members(_, _, _)
interface_members(P, members, i) ==
    IF i > Len(members) THEN Ok
    ELSE IF is_reserved_name(P, members[i].name) THEN Err("is a reserved keyword.", members[i].name)
    ELSE IF members[i].type.tag = "Literal" THEN interface_members(P, members, i + 1)
    ELSE IF ~contains_key(P.interfaces, members[i].type.id)
        THEN Err("in interface is not defined.", members[i].type.id)
    ELSE interface_members(P, members, i + 1)

(* Variant: the name is inserted into identifiers before the members are   *)
(* checked.                                                                *)
add_interface_early_insert(P, interface) ==
    LET interface_name == interface.name
        checked == interface_members(P, interface.members, 1)
        ids == insert(P.identifiers, interface_name, "Interface")
        P1 == [P EXCEPT !.identifiers = ids.map]
        ifs == insert(P1.interfaces, interface_name, interface)
        P2 == [P1 EXCEPT !.interfaces = ifs.map]
    IN  IF ~is_unique_name(P, interface_name) THEN Return(P, Err("is already in use.", interface_name))
        ELSE IF is_reserved_name(P, interface_name) THEN Return(P, Err("is a reserved keyword.", interface_name))
        ELSE IF ids.is_some THEN Return(P1, Err("already exists in the program.", interface_name))
        ELSE IF checked # Ok THEN Return(P1, checked)
        ELSE IF ifs.is_some THEN Return(P2, Err("already exists in the program.", interface_name))
        ELSE Return(P2, Ok)

(* Variant: the members are checked against the program that already holds *)
(* the new interface.                                                      *)
add_interface_self_visible(P, interface) ==
    LET interface_name == interface.name
        ids == insert(P.identifiers, interface_name, "Interface")
        P1 == [P EXCEPT !.identifiers = ids.map]
        ifs == insert(P1.interfaces, interface_name, interface)
        P2 == [P1 EXCEPT !.interfaces = ifs.map]
        checked == interface_members(P2, interface.members, 1)
    IN  IF ~is_unique_name(P, interface_name) THEN Return(P, Err("is already in use.", interface_name))
        ELSE IF is_reserved_name(P, interface_name) THEN Return(P, Err("is a reserved keyword.", interface_name))
        ELSE IF checked # Ok THEN Return(P, checked)
        ELSE IF ids.is_some THEN Return(P1, Err("already exists in the program.", interface_name))
        ELSE IF ifs.is_some THEN Return(P2, Err("already exists in the program.", interface_name))
        ELSE Return(P2, Ok)

add_interface(P, interface) ==
    LET interface_name == interface.name
        checked == interface_members(P, interface.members, 1)
        ids == insert(P.identifiers, interface_name, "Interface")
        P1 == [P EXCEPT !.identifiers = ids.map]
        ifs == insert(P1.interfaces, interface_name, interface)
        P2 == [P1 EXCEPT !.interfaces = ifs.map]
    IN  IF ~is_unique_name(P, interface_name) THEN Return(P, Err("is already in use.", interface_name))
        ELSE IF is_reserved_name(P, interface_name) THEN Return(P, Err("is a reserved keyword.", interface_name))
        ELSE IF checked # Ok THEN Return(P, checked)
        ELSE IF ids.is_some THEN Return(P1, Err("already exists in the program.", interface_name))
        ELSE IF ifs.is_some THEN Return(P2, Err("already exists in the program.", interface_name))
        ELSE Return(P2, Ok)

(***************************************************************************)
(* add_record.                                                             *)
(***************************************************************************)
(* Variant: the entry types are not looked up. *)
RECURSIVE record_entries_unresolved(_, _, _)
record_entries_unresolved(P, entries, i) ==
    IF i > Len(entries) THEN Ok
    ELSE IF is_reserved_name(P, entries[i].name) THEN Err("is a reserved keyword.", entries[i].name)
    ELSE record_entries_unresolved(P, entries, i + 1)

RECURSIVE record_entries(_, _, _)
record_entries(P, entries, i) ==
    IF i > Len(entries) THEN Ok
    ELSE IF is_reserved_name(P, entries[i].name) THEN Err("is a reserved keyword.", entries[i].name)
    ELSE IF entries[i].type.type.tag = "Literal" THEN record_entries(P, entries, i + 1)
    ELSE IF ~contains_key(P.interfaces, entries[i].type.type.id)
        THEN Err("Interface in record is not defined.", entries[i].type.type.id)
    ELSE record_entries(P, entries, i + 1)

(* Variant: the name is registered in identifiers with the interface tag. *)
add_record_interface_tag(P, record) ==
    LET record_name == record.name
        checked == record_entries(P, record.entries, 1)
        ids == insert(P.identifiers, record_name, "Interface")
        P1 == [P EXCEPT !.identifiers = ids.map]
        recs == insert(P1.records, record_name, record)
        P2 == [P1 EXCEPT !.records = recs.map]
    IN  IF ~is_unique_name(P, record_name) THEN Return(P, Err("is already in use.", record_name))
        ELSE IF is_reserved_name(P, record_name) THEN Return(P, Err("is a reserved keyword.", record_name))
        ELSE IF checked # Ok THEN Return(P, checked)
        ELSE IF ids.is_some THEN Return(P1, Err("already exists in the program.", record_name))
        ELSE IF recs.is_some THEN Return(P2, Err("already exists in the program.", record_name))
        ELSE Return(P2, Ok)

add_record(P, record) ==
    LET record_name == record.name
        checked == record_entries(P, record.entries, 1)
        ids == insert(P.identifiers, record_name, "Record")
        P1 == [P EXCEPT !.identifiers = ids.map]
        recs == insert(P1.records, record_name, record)
        P2 == [P1 EXCEPT !.records = recs.map]
    IN  IF ~is_unique_name(P, record_name) THEN Return(P, Err("is already in use.", record_name))
        ELSE IF is_reserved_name(P, record_name) THEN Return(P, Err("is a reserved keyword.", record_name))
        ELSE IF checked # Ok THEN Return(P, checked)
        ELSE IF ids.is_some THEN Return(P1, Err("already exists in the program.", record_name))
        ELSE IF recs.is_some THEN Return(P2, Err("already exists in the program.", record_name))
        ELSE Return(P2, Ok)

(***************************************************************************)
(* RegisterTypes: the static register table of one function.               *)
(***************************************************************************)
RegisterTypes_new == [inputs |-> <<>>, destinations |-> <<>>, outputs |-> <<>>]

Registered(registers, result) == [registers |-> registers, result |-> result]

Typed(type, result) == [type |-> type, result |-> result]

NoType == [tag |-> "None"]

(* RegisterType::from(ValueType): the mode is dropped. *)
RegisterTypeOf(value_type) ==
    IF value_type.tag = "Record" THEN RecordRegisterType(value_type.id)
    ELSE PlaintextRegisterType(value_type.type)

add_input(registers, register, value_type) ==
    IF register.tag # "Locator" THEN Registered(registers, Err("Input register must be a locator.", ""))
    ELSE IF register.n # Len(registers.inputs)
        THEN Registered(registers, Err("Input register is out of order.", ""))
    ELSE IF contains_key(registers.inputs, register.n) \/ contains_key(registers.destinations, register.n)
        THEN Registered(registers, Err("Input register already exists.", ""))
    ELSE Registered(
            [registers EXCEPT !.inputs = Append(@, [key |-> register.n, val |-> value_type])], Ok)

add_destination(registers, register, register_type) ==
    IF register.tag # "Locator" THEN Registered(registers, Err("Destination register must be a locator.", ""))
    ELSE IF register.n # Len(registers.inputs) + Len(registers.destinations)
        THEN Registered(registers, Err("Destination register is out of order.", ""))
    ELSE IF contains_key(registers.inputs, register.n) \/ contains_key(registers.destinations, register.n)
        THEN Registered(registers, Err("Destination register already exists.", ""))
    ELSE Registered(
            [registers EXCEPT !.destinations = Append(@, [key |-> register.n, val |-> register_type])], Ok)

add_output(registers, register, value_type) ==
    Registered(
        [registers EXCEPT !.outputs = Append(@, [register |-> register, value_type |-> value_type])], Ok)

is_input(registers, register) == contains_key(registers.inputs, register.n)

HasMember(members, name) == \E i \in 1..Len(members) : members[i].name = name

MemberOf(members, name) == members[CHOOSE i \in 1..Len(members) : members[i].name = name]

(* The walk of a member path through the interfaces of the program. *)
RECURSIVE walk_path(_, _, _, _)
walk_path(P, plaintext_type, path, i) ==
    IF i > Len(path) THEN Typed(PlaintextRegisterType(plaintext_type), Ok)
    ELSE IF plaintext_type.tag # "Interface" THEN Typed(NoType, Err("Member of a literal is not defined.", ""))
    ELSE IF ~contains_key(P.interfaces, plaintext_type.id) THEN Typed(NoType, Err("Interface in path is not defined.", ""))
    ELSE IF ~HasMember(get(P.interfaces, plaintext_type.id).members, path[i])
        THEN Typed(NoType, Err("Member is not defined.", ""))
    ELSE walk_path(P, MemberOf(get(P.interfaces, plaintext_type.id).members, path[i]).type, path, i + 1)

locator_type(registers, n) ==
    IF contains_key(registers.inputs, n) THEN Typed(RegisterTypeOf(get(registers.inputs, n)), Ok)
    ELSE IF contains_key(registers.destinations, n) THEN Typed(get(registers.destinations, n), Ok)
    ELSE Typed(NoType, Err("Register is not defined.", ""))

(* A member of a record locator is the entry of that name of the record    *)
(* (r0.token_amount of a token record), then a path through interfaces.    *)
get_type(P, registers, register) ==
    LET base == locator_type(registers, register.n)
    IN  IF base.result # Ok \/ register.tag = "Locator" THEN base
        ELSE IF base.type.tag = "Plaintext" THEN walk_path(P, base.type.type, register.path, 1)
        ELSE IF ~contains_key(P.records, base.type.id) THEN Typed(NoType, Err("Record is not defined.", ""))
        ELSE IF ~HasMember(get(P.records, base.type.id).entries, register.path[1])
            THEN Typed(NoType, Err("Entry is not defined.", ""))
        ELSE walk_path(P, MemberOf(get(P.records, base.type.id).entries, register.path[1]).type.type,
                       register.path, 2)

(***************************************************************************)
(* Operands and instructions.                                              *)
(***************************************************************************)
LiteralOperand(kind, value) == [tag |-> "Literal", kind |-> kind, value |-> value]

RegisterOperand(register) == [tag |-> "Register", register |-> register]

Instruction(opcode, operands, destination) ==
    [opcode |-> opcode, operands |-> operands, destination |-> destination]

(* Instruction::output_type of the opcode add: two plaintext literal       *)
(* operands of one kind give that kind.                                    *)
output_type(instruction, operand_types) ==
    IF Len(operand_types) # 2 THEN Typed(NoType, Err("Instruction expects 2 operands.", ""))
    ELSE IF operand_types[1].tag # "Plaintext" \/ operand_types[1].type.tag # "Literal"
        THEN Typed(NoType, Err("Instruction expects literal operands.", ""))
    ELSE IF operand_types[2] # operand_types[1] THEN Typed(NoType, Err("Instruction expects operands of one type.", ""))
    ELSE Typed(operand_types[1], Ok)

(***************************************************************************)
(* add_function.                                                           *)
(***************************************************************************)
(* Variant: a name declared as any kind is taken for a declared type. *)
value_type_defined_any_kind(P, value_type) ==
    IF value_type.tag = "Record"
    THEN IF contains_key(P.identifiers, value_type.id) THEN Ok
         ELSE Err("Record in function is not defined.", value_type.id)
    ELSE IF value_type.type.tag = "Literal" THEN Ok
    ELSE IF contains_key(P.identifiers, value_type.type.id) THEN Ok
    ELSE Err("Interface in function is not defined.", value_type.type.id)

(* The check that the type a value type names is defined in the program. *)
value_type_defined(P, value_type) ==
    IF value_type.tag = "Record"
    THEN IF contains_key(P.records, value_type.id) THEN Ok
         ELSE Err("Record in function is not defined.", value_type.id)
    ELSE IF value_type.type.tag = "Literal" THEN Ok
    ELSE IF contains_key(P.interfaces, value_type.type.id) THEN Ok
    ELSE Err("Interface in function is not defined.", value_type.type.id)

(* Variant: the result of add_input is dropped. *)
RECURSIVE function_inputs_unchecked(_, _, _, _)
function_inputs_unchecked(P, inputs, i, registers) ==
    IF i > Len(inputs) THEN Registered(registers, Ok)
    ELSE LET defined == value_type_defined(P, inputs[i].value_type)
             added == add_input(registers, inputs[i].register, inputs[i].value_type)
         IN  IF defined # Ok THEN Registered(registers, defined)
             ELSE function_inputs_unchecked(P, inputs, i + 1, added.registers)

(* Step 1, from input i on. *)
RECURSIVE function_inputs(_, _, _, _)
function_inputs(P, inputs, i, registers) ==
    IF i > Len(inputs) THEN Registered(registers, Ok)
    ELSE LET defined == value_type_defined(P, inputs[i].value_type)
             added == add_input(registers, inputs[i].register, inputs[i].value_type)
         IN  IF defined # Ok THEN Registered(registers, defined)
             ELSE IF added.result # Ok THEN added
             ELSE function_inputs(P, inputs, i + 1, added.registers)

(* Variant: a member register is no operand. *)
RECURSIVE operand_types_locators_only(_, _, _, _, _)
operand_types_locators_only(P, registers, operands, i, types) ==
    IF i > Len(operands) THEN [types |-> types, result |-> Ok]
    ELSE IF operands[i].tag = "Literal"
        THEN operand_types_locators_only(P, registers, operands, i + 1,
                                         Append(types, PlaintextRegisterType(LiteralType(operands[i].kind))))
    ELSE LET t == get_type(P, registers, operands[i].register)
         IN  IF operands[i].register.tag = "Member"
                 THEN [types |-> types, result |-> Err("Operand register must be a locator.", "")]
             ELSE IF t.result # Ok THEN [types |-> types, result |-> t.result]
             ELSE operand_types_locators_only(P, registers, operands, i + 1, Append(types, t.type))

(* Variant: an operand register without a type is taken for a field. *)
RECURSIVE operand_types_error_ignored(_, _, _, _, _)
operand_types_error_ignored(P, registers, operands, i, types) ==
    IF i > Len(operands) THEN [types |-> types, result |-> Ok]
    ELSE IF operands[i].tag = "Literal"
        THEN operand_types_error_ignored(P, registers, operands, i + 1,
                                         Append(types, PlaintextRegisterType(LiteralType(operands[i].kind))))
    ELSE LET t == get_type(P, registers, operands[i].register)
         IN  operand_types_error_ignored(P, registers, operands, i + 1,
                 Append(types, IF t.result # Ok THEN PlaintextRegisterType(LiteralType("field")) ELSE t.type))

(* The types of the operands of one instruction, from operand i on. *)
RECURSIVE operand_types(_, _, _, _, _)
operand_types(P, registers, operands, i, types) ==
    IF i > Len(operands) THEN [types |-> types, result |-> Ok]
    ELSE IF operands[i].tag = "Literal"
        THEN operand_types(P, registers, operands, i + 1,
                           Append(types, PlaintextRegisterType(LiteralType(operands[i].kind))))
    ELSE LET t == get_type(P, registers, operands[i].register)
         IN  IF t.result # Ok THEN [types |-> types, result |-> t.result]
             ELSE operand_types(P, registers, operands, i + 1, Append(types, t.type))

(* Variant: the result of add_destination is dropped. *)
RECURSIVE function_instructions_destination_unchecked(_, _, _, _)
function_instructions_destination_unchecked(P, instructions, i, registers) ==
    IF i > Len(instructions) THEN Registered(registers, Ok)
    ELSE LET instruction == instructions[i]
             operands == operand_types(P, registers, instruction.operands, 1, <<>>)
             destination_type == output_type(instruction, operands.types)
             destination == instruction.destination
             added == add_destination(registers, destination, destination_type.type)
         IN  IF operands.result # Ok THEN Registered(registers, operands.result)
             ELSE IF destination_type.result # Ok THEN Registered(registers, destination_type.result)
             ELSE IF destination.tag = "Member"
                 THEN Registered(registers, Err("Destination register must be a locator.", ""))
             ELSE function_instructions_destination_unchecked(P, instructions, i + 1, added.registers)

(* Variant: the destination takes the type of the first operand. *)
RECURSIVE function_instructions_first_operand_type(_, _, _, _)
function_instructions_first_operand_type(P, instructions, i, registers) ==
    IF i > Len(instructions) THEN Registered(registers, Ok)
    ELSE LET instruction == instructions[i]
             operands == operand_types(P, registers, instruction.operands, 1, <<>>)
             destination == instruction.destination
             added == add_destination(registers, destination, operands.types[1])
         IN  IF operands.result # Ok THEN Registered(registers, operands.result)
             ELSE IF destination.tag = "Member"
                 THEN Registered(registers, Err("Destination register must be a locator.", ""))
             ELSE IF added.result # Ok THEN added
             ELSE function_instructions_first_operand_type(P, instructions, i + 1, added.registers)

(* Variant: a member destination is taken for its locator. *)
RECURSIVE function_instructions_member_as_locator(_, _, _, _)
function_instructions_member_as_locator(P, instructions, i, registers) ==
    IF i > Len(instructions) THEN Registered(registers, Ok)
    ELSE LET instruction == instructions[i]
             operands == operand_types(P, registers, instruction.operands, 1, <<>>)
             destination_type == output_type(instruction, operands.types)
             destination == instruction.destination
             added == add_destination(registers, Locator(destination.n), destination_type.type)
         IN  IF operands.result # Ok THEN Registered(registers, operands.result)
             ELSE IF destination_type.result # Ok THEN Registered(registers, destination_type.result)
             ELSE IF added.result # Ok THEN added
             ELSE function_instructions_member_as_locator(P, instructions, i + 1, added.registers)

(* Step 2, from instruction i on. *)
RECURSIVE function_instructions(_, _, _, _)
function_instructions(P, instructions, i, registers) ==
    IF i > Len(instructions) THEN Registered(registers, Ok)
    ELSE LET instruction == instructions[i]
             operands == operand_types(P, registers, instruction.operands, 1, <<>>)
             destination_type == output_type(instruction, operands.types)
             destination == instruction.destination
             added == add_destination(registers, destination, destination_type.type)
         IN  IF operands.result # Ok THEN Registered(registers, operands.result)
             ELSE IF destination_type.result # Ok THEN Registered(registers, destination_type.result)
             ELSE IF destination.tag = "Member"
                 THEN Registered(registers, Err("Destination register must be a locator.", ""))
             ELSE IF added.result # Ok THEN added
             ELSE function_instructions(P, instructions, i + 1, added.registers)

(* Variant: every pairing of a register type with an output type is       *)
(* taken.                                                                  *)
output_matches_every_pairing(register_type, value_type) == Ok

(* The match by kind alone, without the comparison of the two types. *)
output_matches_kind_only(register_type, value_type) ==
    IF register_type.tag = "Plaintext" /\ value_type.tag \in Modes THEN Ok
    ELSE IF register_type.tag = "Record" /\ value_type.tag = "Record" THEN Ok
    ELSE Err("Output does not match the expected output register type.", "")

(* The match of a register type with the declared type of an output. *)
output_matches(register_type, value_type) ==
    IF register_type.tag = "Plaintext" /\ value_type.tag \in Modes
    THEN IF register_type.type = value_type.type THEN Ok ELSE Err("Output has an incorrect type.", "")
    ELSE IF register_type.tag = "Record" /\ value_type.tag = "Record"
    THEN IF register_type.id = value_type.id THEN Ok ELSE Err("Output has an incorrect type.", "")
    ELSE Err("Output does not match the expected output register type.", "")

(* Variant: an output on an input register is refused. *)
RECURSIVE function_outputs_inputs_refused(_, _, _, _)
function_outputs_inputs_refused(P, outputs, i, registers) ==
    IF i > Len(outputs) THEN Registered(registers, Ok)
    ELSE LET register == outputs[i].register
             register_type == get_type(P, registers, register)
             defined == value_type_defined(P, outputs[i].value_type)
             matched == output_matches(register_type.type, outputs[i].value_type)
             added == add_output(registers, register, outputs[i].value_type)
         IN  IF is_input(registers, register)
                 THEN Registered(registers, Err("Output register is an input register.", ""))
             ELSE IF register_type.result # Ok THEN Registered(registers, register_type.result)
             ELSE IF defined # Ok THEN Registered(registers, defined)
             ELSE IF matched # Ok THEN Registered(registers, matched)
             ELSE IF added.result # Ok THEN added
             ELSE function_outputs_inputs_refused(P, outputs, i + 1, added.registers)

(* Variant: the register of an output must be a locator. *)
RECURSIVE function_outputs_locators_only(_, _, _, _)
function_outputs_locators_only(P, outputs, i, registers) ==
    IF i > Len(outputs) THEN Registered(registers, Ok)
    ELSE LET register == outputs[i].register
             register_type == get_type(P, registers, register)
             defined == value_type_defined(P, outputs[i].value_type)
             matched == output_matches(register_type.type, outputs[i].value_type)
             added == add_output(registers, register, outputs[i].value_type)
         IN  IF register.tag = "Member" THEN Registered(registers, Err("Output register must be a locator.", ""))
             ELSE IF register_type.result # Ok THEN Registered(registers, register_type.result)
             ELSE IF defined # Ok THEN Registered(registers, defined)
             ELSE IF matched # Ok THEN Registered(registers, matched)
             ELSE IF added.result # Ok THEN added
             ELSE function_outputs_locators_only(P, outputs, i + 1, added.registers)

(* Step 3, from output i on. The diagnostic printed for an output on an    *)
(* input register (is_input) changes neither the result nor the program.   *)
RECURSIVE function_outputs(_, _, _, _)
function_outputs(P, outputs, i, registers) ==
    IF i > Len(outputs) THEN Registered(registers, Ok)
    ELSE LET register == outputs[i].register
             register_type == get_type(P, registers, register)
             defined == value_type_defined(P, outputs[i].value_type)
             matched == output_matches(register_type.type, outputs[i].value_type)
             added == add_output(registers, register, outputs[i].value_type)
         IN  IF register_type.result # Ok THEN Registered(registers, register_type.result)
             ELSE IF defined # Ok THEN Registered(registers, defined)
             ELSE IF matched # Ok THEN Registered(registers, matched)
             ELSE IF added.result # Ok THEN added
             ELSE function_outputs(P, outputs, i + 1, added.registers)

(* Steps 1 to 3: the register types of the function, or the first error. *)
function_register_types(P, function) ==
    LET step1 == function_inputs(P, function.inputs, 1, RegisterTypes_new)
        step2 == function_instructions(P, function.instructions, 1, step1.registers)
        step3 == function_outputs(P, function.outputs, 1, step2.registers)
    IN  IF step1.result # Ok THEN step1
        ELSE IF step2.result # Ok THEN step2
        ELSE step3

(* Variant: the register types of the function are not kept. *)
add_function_registers_dropped(P, function) ==
    LET function_name == function.name
        checked == function_register_types(P, function)
        ids == insert(P.identifiers, function_name, "Function")
        P1 == [P EXCEPT !.identifiers = ids.map]
        fns == insert(P1.functions, function_name, function)
        P2 == [P1 EXCEPT !.functions = fns.map]
    IN  IF ~is_unique_name(P, function_name) THEN Return(P, Err("is already in use.", function_name))
        ELSE IF is_reserved_name(P, function_name) THEN Return(P, Err("is a reserved keyword.", function_name))
        ELSE IF checked.result # Ok THEN Return(P, checked.result)
        ELSE IF ids.is_some THEN Return(P1, Err("already exists in the program.", function_name))
        ELSE IF fns.is_some THEN Return(P2, Err("already exists in the program.", function_name))
        ELSE Return(P2, Ok)

(* add_function: the checks, then the three inserts. *)
add_function(P, function) ==
    LET function_name == function.name
        checked == function_register_types(P, function)
        ids == insert(P.identifiers, function_name, "Function")
        P1 == [P EXCEPT !.identifiers = ids.map]
        fns == insert(P1.functions, function_name, function)
        P2 == [P1 EXCEPT !.functions = fns.map]
        regs == insert(P2.function_registers, function_name, checked.registers)
        P3 == [P2 EXCEPT !.function_registers = regs.map]
    IN  IF ~is_unique_name(P, function_name) THEN Return(P, Err("is already in use.", function_name))
        ELSE IF is_reserved_name(P, function_name) THEN Return(P, Err("is a reserved keyword.", function_name))
        ELSE IF checked.result # Ok THEN Return(P, checked.result)
        ELSE IF ids.is_some THEN Return(P1, Err("already exists in the program.", function_name))
        ELSE IF fns.is_some THEN Return(P2, Err("already exists in the program.", function_name))
        ELSE IF regs.is_some THEN Return(P3, Err("already exists in the program.", function_name))
        ELSE Return(P3, Ok)

(***************************************************************************)
(* parse: the components of the text added in order to a new program.      *)
(***************************************************************************)
add_component(P, component) ==
    IF component.kind = "I" THEN add_interface(P, component.declaration)
    ELSE IF component.kind = "R" THEN add_record(P, component.declaration)
    ELSE add_function(P, component.declaration)

(* The fold from component i on; the first error ends it. *)
RECURSIVE add_components(_, _, _)
RECURSIVE next_component(_, _, _)
(* Variant: a declaration that is not added is left out. *)
next_component_error_skipped(added, components, i) == add_components(added.prog, components, i + 1)

next_component(added, components, i) ==
    IF added.result # Ok THEN added ELSE add_components(added.prog, components, i + 1)

add_components(P, components, i) ==
    IF i > Len(components) THEN Return(P, Ok)
    ELSE next_component(add_component(P, components[i]), components, i)

(* many1: a text without a component is not a program. *)
parse(components) ==
    IF Len(components) = 0 THEN Return(new, Err("Failed to parse a component.", ""))
    ELSE add_components(new, components, 1)

(***************************************************************************)
(* Values.                                                                 *)
(***************************************************************************)
(* Plaintext::Literal and Plaintext::Interface. *)
Literal(kind, value) == [tag |-> "Literal", kind |-> kind, value |-> value]

InterfaceValue(members) == [tag |-> "Interface", members |-> members]

(* A record: its owner, its balance and its entries, each with a mode. *)
RecordValue(owner, balance, entries) == [owner |-> owner, balance |-> balance, entries |-> entries]

PlaintextRegisterValue(plaintext) == [tag |-> "Plaintext", plaintext |-> plaintext]

RecordRegisterValue(record) == [tag |-> "Record", record |-> record]

(* Value::Constant, Value::Public, Value::Private and Value::Record. *)
PlaintextValue(mode, plaintext) == [tag |-> mode, plaintext |-> plaintext]

RecordOutputValue(record) == [tag |-> "Record", record |-> record]

(***************************************************************************)
(* Stack: the program, the register types of the function and the values   *)
(* of the assigned locators.                                               *)
(***************************************************************************)
Stacked(stack, result) == [stack |-> stack, result |-> result]

Loaded(value, result) == [value |-> value, result |-> result]

NoValue == [tag |-> "None"]

(* The plaintext has the structure of the plaintext type: the kind of each *)
(* literal, and the number, names and structure of the members of each     *)
(* interface.                                                              *)
RECURSIVE matches_plaintext(_, _, _)
matches_plaintext(P, plaintext, plaintext_type) ==
    IF plaintext_type.tag = "Literal"
    THEN plaintext.tag = "Literal" /\ plaintext.kind = plaintext_type.id
    ELSE /\ plaintext.tag = "Interface"
         /\ contains_key(P.interfaces, plaintext_type.id)
         /\ LET members == get(P.interfaces, plaintext_type.id).members
            IN  /\ Len(plaintext.members) = Len(members)
                /\ \A i \in 1..Len(members) :
                      /\ plaintext.members[i].name = members[i].name
                      /\ matches_plaintext(P, plaintext.members[i].value, members[i].type)

(* The record has the entries of the record type of that name. *)
matches_record(P, record, id) ==
    /\ contains_key(P.records, id)
    /\ LET entries == get(P.records, id).entries
       IN  /\ Len(record.entries) = Len(entries)
           /\ \A i \in 1..Len(entries) :
                 /\ record.entries[i].name = entries[i].name
                 /\ matches_plaintext(P, record.entries[i].value, entries[i].type.type)

(* The mode of the value and the mode of the type are not compared. *)
matches_value(stack, value, value_type) ==
    IF value.tag \in Modes /\ value_type.tag \in Modes
    THEN IF matches_plaintext(stack.program, value.plaintext, value_type.type) THEN Ok
         ELSE Err("Value does not match the value type.", "")
    ELSE IF value.tag = "Record" /\ value_type.tag = "Record"
    THEN IF matches_record(stack.program, value.record, value_type.id) THEN Ok
         ELSE Err("Value does not match the value type.", "")
    ELSE Err("Value does not match the value type.", "")

(* An input of the stack against the declared type of its register. *)
matches_input(stack, register_value, value_type) ==
    IF register_value.tag = "Plaintext" /\ value_type.tag \in Modes
    THEN IF matches_plaintext(stack.program, register_value.plaintext, value_type.type) THEN Ok
         ELSE Err("Input does not match the input type.", "")
    ELSE IF register_value.tag = "Record" /\ value_type.tag = "Record"
    THEN IF matches_record(stack.program, register_value.record, value_type.id) THEN Ok
         ELSE Err("Input does not match the input type.", "")
    ELSE Err("Input does not match the input type.", "")

(* Write once: a locator that has a value is not stored again. *)
store(stack, register, register_value) ==
    IF register.tag # "Locator" THEN Stacked(stack, Err("Cannot store to a member.", ""))
    ELSE IF contains_key(stack.registers, register.n)
        THEN Stacked(stack, Err("Register is already assigned.", ""))
    ELSE Stacked([stack EXCEPT !.registers = Append(@, [key |-> register.n, val |-> register_value])], Ok)

(* The inputs bound to the input registers in order, from input i on. *)
RECURSIVE bind_inputs(_, _, _)
bind_inputs(stack, inputs, i) ==
    IF i > Len(inputs) THEN Stacked(stack, Ok)
    ELSE LET declared == stack.register_types.inputs[i]
             matched == matches_input(stack, inputs[i], declared.val)
             stored == store(stack, Locator(declared.key), inputs[i])
         IN  IF matched # Ok THEN Stacked(stack, matched)
             ELSE IF stored.result # Ok THEN stored
             ELSE bind_inputs(stored.stack, inputs, i + 1)

Stack_new(P, register_types, inputs) ==
    LET stack == [program |-> P, register_types |-> register_types, registers |-> <<>>]
    IN  IF Len(inputs) # Len(register_types.inputs)
        THEN Stacked(stack, Err("Stack expects as many inputs as input registers.", ""))
        ELSE bind_inputs(stack, inputs, 1)

(* The projection of a plaintext through a member path, from step i on. *)
RECURSIVE project(_, _, _)
project(plaintext, path, i) ==
    IF i > Len(path) THEN Loaded(PlaintextRegisterValue(plaintext), Ok)
    ELSE IF plaintext.tag # "Interface" THEN Loaded(NoValue, Err("Member of a literal cannot be loaded.", ""))
    ELSE IF ~HasMember(plaintext.members, path[i]) THEN Loaded(NoValue, Err("Member cannot be loaded.", ""))
    ELSE project(MemberOf(plaintext.members, path[i]).value, path, i + 1)

(* A member of a record is the value of the entry of that name (the        *)
(* token_amount of a token), then a path through its plaintext.            *)
load_entry(record, path) ==
    IF ~HasMember(record.entries, path[1]) THEN Loaded(NoValue, Err("Entry cannot be loaded.", ""))
    ELSE project(MemberOf(record.entries, path[1]).value, path, 2)

load(stack, operand) ==
    IF operand.tag = "Literal" THEN Loaded(PlaintextRegisterValue(Literal(operand.kind, operand.value)), Ok)
    ELSE IF ~contains_key(stack.registers, operand.register.n)
        THEN Loaded(NoValue, Err("Register is not assigned.", ""))
    ELSE LET assigned == get(stack.registers, operand.register.n)
         IN  IF operand.register.tag = "Locator" THEN Loaded(assigned, Ok)
             ELSE IF assigned.tag = "Plaintext" THEN project(assigned.plaintext, operand.register.path, 1)
             ELSE load_entry(assigned.record, operand.register.path)

(* RegisterTypes::to_outputs: the declared outputs in declaration order. *)
to_outputs(register_types) == register_types.outputs

(***************************************************************************)
(* Function::evaluate: the instructions in order, each storing its result  *)
(* in its destination.                                                     *)
(***************************************************************************)
(* The opcode add: the sum of two literals of one kind. *)
execute(stack, instruction) ==
    LET first == load(stack, instruction.operands[1])
        second == load(stack, instruction.operands[2])
    IN  IF Len(instruction.operands) # 2 THEN Stacked(stack, Err("Instruction expects 2 operands.", ""))
        ELSE IF first.result # Ok THEN Stacked(stack, first.result)
        ELSE IF second.result # Ok THEN Stacked(stack, second.result)
        ELSE IF first.value.tag # "Plaintext" \/ second.value.tag # "Plaintext"
            THEN Stacked(stack, Err("Instruction expects literal operands.", ""))
        ELSE IF first.value.plaintext.tag # "Literal" \/ second.value.plaintext.tag # "Literal"
            THEN Stacked(stack, Err("Instruction expects literal operands.", ""))
        ELSE IF first.value.plaintext.kind # second.value.plaintext.kind
            THEN Stacked(stack, Err("Instruction expects operands of one type.", ""))
        ELSE store(stack, instruction.destination,
                   PlaintextRegisterValue(Literal(first.value.plaintext.kind,
                                                  first.value.plaintext.value + second.value.plaintext.value)))

Executed(stack, result, executed) == [stack |-> stack, result |-> result, executed |-> executed]

(* From instruction i on; executed counts the instructions that ran. *)
RECURSIVE Function_evaluate(_, _, _)
Function_evaluate(stack, instructions, i) ==
    IF i > Len(instructions) THEN Executed(stack, Ok, i - 1)
    ELSE LET step == execute(stack, instructions[i])
         IN  IF step.result # Ok THEN Executed(stack, step.result, i - 1)
             ELSE Function_evaluate(step.stack, instructions, i + 1)

(***************************************************************************)
(* evaluate.                                                               *)
(***************************************************************************)
(* Variant: every plaintext is returned as a private value. *)
output_value_private(register_value, value_type) ==
    IF register_value.tag = "Plaintext" /\ value_type.tag \in Modes
    THEN [value |-> [tag |-> "Private", plaintext |-> register_value.plaintext], result |-> Ok]
    ELSE IF register_value.tag = "Record" /\ value_type.tag = "Record"
    THEN [value |-> [tag |-> "Record", record |-> register_value.record], result |-> Ok]
    ELSE [value |-> [tag |-> "None"], result |-> Err("Register value does not match the expected output type", "")]

(* The value of a register with the mode of its declared output type. *)
output_value(register_value, value_type) ==
    IF register_value.tag = "Plaintext" /\ value_type.tag = "Constant"
    THEN Loaded(PlaintextValue("Constant", register_value.plaintext), Ok)
    ELSE IF register_value.tag = "Plaintext" /\ value_type.tag = "Public"
    THEN Loaded(PlaintextValue("Public", register_value.plaintext), Ok)
    ELSE IF register_value.tag = "Plaintext" /\ value_type.tag = "Private"
    THEN Loaded(PlaintextValue("Private", register_value.plaintext), Ok)
    ELSE IF register_value.tag = "Record" /\ value_type.tag = "Record"
    THEN Loaded(RecordOutputValue(register_value.record), Ok)
    ELSE Loaded(NoValue, Err("Register value does not match the expected output type", ""))

Outputs(outputs, result) == [outputs |-> outputs, result |-> result]

(* Variant: the locator of the register of an output is loaded, without   *)
(* its path.                                                               *)
RECURSIVE load_outputs_of_locators(_, _, _, _)
load_outputs_of_locators(stack, declared, i, outputs) ==
    IF i > Len(declared) THEN Outputs(outputs, Ok)
    ELSE LET register_value == load(stack, RegisterOperand(Locator(declared[i].register.n)))
             output == output_value(register_value.value, declared[i].value_type)
         IN  IF register_value.result # Ok THEN Outputs(<<>>, register_value.result)
             ELSE IF output.result # Ok THEN Outputs(<<>>, output.result)
             ELSE load_outputs_of_locators(stack, declared, i + 1, Append(outputs, output.value))

(* Variant: each output is put before the outputs collected so far. *)
RECURSIVE load_outputs_prepended(_, _, _, _)
load_outputs_prepended(stack, declared, i, outputs) ==
    IF i > Len(declared) THEN Outputs(outputs, Ok)
    ELSE LET register_value == load(stack, RegisterOperand(declared[i].register))
             output == output_value(register_value.value, declared[i].value_type)
             matched == matches_value(stack, output.value, declared[i].value_type)
         IN  IF register_value.result # Ok THEN Outputs(<<>>, register_value.result)
             ELSE IF output.result # Ok THEN Outputs(<<>>, output.result)
             ELSE IF matched # Ok THEN Outputs(<<>>, matched)
             ELSE load_outputs_prepended(stack, declared, i + 1, <<output.value>> \o outputs)

(* The outputs from declared output i on; an error returns no output. *)
RECURSIVE load_outputs(_, _, _, _)
load_outputs(stack, declared, i, outputs) ==
    IF i > Len(declared) THEN Outputs(outputs, Ok)
    ELSE LET register_value == load(stack, RegisterOperand(declared[i].register))
             output == output_value(register_value.value, declared[i].value_type)
             matched == matches_value(stack, output.value, declared[i].value_type)
         IN  IF register_value.result # Ok THEN Outputs(<<>>, register_value.result)
             ELSE IF output.result # Ok THEN Outputs(<<>>, output.result)
             ELSE IF matched # Ok THEN Outputs(<<>>, matched)
             ELSE load_outputs(stack, declared, i + 1, Append(outputs, output.value))

(* What a call returns, and what it built on the way: stacks holds the     *)
(* stack of the call where it ended, or nothing when none was built, and   *)
(* executed is the number of instructions that ran.                        *)
Evaluated(P, result, outputs, stacks, executed) ==
    [prog |-> P, outputs |-> outputs, stacks |-> stacks, result |-> result, executed |-> executed]

(* Variant: the instructions of the function are run a second time. *)
evaluate_declared_evaluated_twice(P, function_name, inputs) ==
    IF ~contains_key(P.function_registers, function_name)
    THEN Evaluated(P, Err("Function is missing its function registers", function_name), <<>>, <<>>, 0)
    ELSE LET function == get(P.functions, function_name)
             register_types == get(P.function_registers, function_name)
             built == Stack_new(P, register_types, inputs)
             once == Function_evaluate(built.stack, function.instructions, 1)
             ran == IF once.result # Ok THEN once ELSE Function_evaluate(once.stack, function.instructions, 1)
             loaded == load_outputs(ran.stack, to_outputs(register_types), 1, <<>>)
         IN  IF built.result # Ok THEN Evaluated(P, built.result, <<>>, <<>>, 0)
             ELSE IF ran.result # Ok THEN Evaluated(P, ran.result, <<>>, <<ran.stack>>, ran.executed)
             ELSE Evaluated(P, loaded.result, loaded.outputs, <<ran.stack>>, ran.executed)

(* Variant: the error of Stack::new is dropped and the call goes on. *)
evaluate_declared_stack_error_dropped(P, function_name, inputs) ==
    IF ~contains_key(P.function_registers, function_name)
    THEN Evaluated(P, Err("Function is missing its function registers", function_name), <<>>, <<>>, 0)
    ELSE LET function == get(P.functions, function_name)
             register_types == get(P.function_registers, function_name)
             built == Stack_new(P, register_types, inputs)
             ran == Function_evaluate(built.stack, function.instructions, 1)
             loaded == load_outputs(ran.stack, to_outputs(register_types), 1, <<>>)
         IN  IF ran.result # Ok THEN Evaluated(P, ran.result, <<>>, <<ran.stack>>, ran.executed)
             ELSE Evaluated(P, loaded.result, loaded.outputs, <<ran.stack>>, ran.executed)

(* Variant: the registers of the function are taken out of the program. *)
evaluate_declared_registers_taken(P, function_name, inputs) ==
    IF ~contains_key(P.function_registers, function_name)
    THEN Evaluated(P, Err("Function is missing its function registers", function_name), <<>>, <<>>, 0)
    ELSE LET function == get(P.functions, function_name)
             register_types == get(P.function_registers, function_name)
             taken == [P EXCEPT !.function_registers =
                          SelectSeq(P.function_registers, LAMBDA entry : entry.key # function_name)]
             built == Stack_new(P, register_types, inputs)
             ran == Function_evaluate(built.stack, function.instructions, 1)
             loaded == load_outputs(ran.stack, to_outputs(register_types), 1, <<>>)
         IN  IF built.result # Ok THEN Evaluated(taken, built.result, <<>>, <<>>, 0)
             ELSE IF ran.result # Ok THEN Evaluated(taken, ran.result, <<>>, <<ran.stack>>, ran.executed)
             ELSE Evaluated(taken, loaded.result, loaded.outputs, <<ran.stack>>, ran.executed)

(* Variant: the stack of the call before is kept for this call. *)
evaluate_declared_stack_kept(P, function_name, inputs) ==
    IF ~contains_key(P.function_registers, function_name)
    THEN Evaluated(P, Err("Function is missing its function registers", function_name), <<>>, <<>>, 0)
    ELSE LET function == get(P.functions, function_name)
             register_types == get(P.function_registers, function_name)
             built == IF last.op = "evaluate" /\ last.stacks # <<>>
                      THEN IF Len(inputs) # Len(register_types.inputs)
                           THEN Stacked(last.stacks[1], Err("Stack expects as many inputs as input registers.", ""))
                           ELSE bind_inputs([last.stacks[1] EXCEPT !.register_types = register_types], inputs, 1)
                      ELSE Stack_new(P, register_types, inputs)
             ran == Function_evaluate(built.stack, function.instructions, 1)
             loaded == load_outputs(ran.stack, to_outputs(register_types), 1, <<>>)
         IN  IF built.result # Ok THEN Evaluated(P, built.result, <<>>, <<>>, 0)
             ELSE IF ran.result # Ok THEN Evaluated(P, ran.result, <<>>, <<ran.stack>>, ran.executed)
             ELSE Evaluated(P, loaded.result, loaded.outputs, <<ran.stack>>, ran.executed)

(* The call once the function is found and the inputs are counted: the     *)
(* register types, a new stack, the instructions, the outputs.             *)
evaluate_declared(P, function_name, inputs) ==
    IF ~contains_key(P.function_registers, function_name)
    THEN Evaluated(P, Err("Function is missing its function registers", function_name), <<>>, <<>>, 0)
    ELSE LET function == get(P.functions, function_name)
             register_types == get(P.function_registers, function_name)
             built == Stack_new(P, register_types, inputs)
             ran == Function_evaluate(built.stack, function.instructions, 1)
             loaded == load_outputs(ran.stack, to_outputs(register_types), 1, <<>>)
         IN  IF built.result # Ok THEN Evaluated(P, built.result, <<>>, <<>>, 0)
             ELSE IF ran.result # Ok THEN Evaluated(P, ran.result, <<>>, <<ran.stack>>, ran.executed)
             ELSE Evaluated(P, loaded.result, loaded.outputs, <<ran.stack>>, ran.executed)

(* Variant: the inputs are not counted against the declared inputs. *)
evaluate_inputs_uncounted(P, function_name, inputs) ==
    IF ~contains_key(P.functions, function_name)
    THEN Evaluated(P, Err("Function is not defined.", function_name), <<>>, <<>>, 0)
    ELSE evaluate_declared(P, function_name, inputs)

(* Variant: a name that is no function returns no output and no error. *)
evaluate_undefined_empty(P, function_name, inputs) ==
    IF ~contains_key(P.functions, function_name) THEN Evaluated(P, Ok, <<>>, <<>>, 0)
    ELSE IF Len(get(P.functions, function_name).inputs) # Len(inputs)
    THEN Evaluated(P, Err("Expected inputs, found", function_name), <<>>, <<>>, 0)
    ELSE evaluate_declared(P, function_name, inputs)

evaluate(P, function_name, inputs) ==
    IF ~contains_key(P.functions, function_name)
    THEN Evaluated(P, Err("Function is not defined.", function_name), <<>>, <<>>, 0)
    ELSE IF Len(get(P.functions, function_name).inputs) # Len(inputs)
    THEN Evaluated(P, Err("Expected inputs, found", function_name), <<>>, <<>>, 0)
    ELSE evaluate_declared(P, function_name, inputs)

(***************************************************************************)
(* The declarations offered to the add operations.                         *)
(***************************************************************************)
DistinctNames(s) == \A i, j \in 1..Len(s) : s[i].name = s[j].name => i = j

SeqsUpTo(S, lo, hi) == UNION {[1..n -> S] : n \in lo..hi}

InterfaceCandidates ==
    {[name |-> n, members |-> ms] :
        n \in Names,
        ms \in {s \in SeqsUpTo([name : FieldNames, type : PlaintextTypes], 1, MaxMembers) : DistinctNames(s)}}

(* The entries of an offered record all carry one mode. *)
RecordCandidates ==
    {[name |-> n, entries |-> [i \in 1..Len(ms) |-> [name |-> ms[i].name, type |-> EntryType(mode, ms[i].type)]]] :
        n \in Names,
        mode \in Modes,
        ms \in {s \in SeqsUpTo([name : FieldNames, type : PlaintextTypes], 1, MaxMembers) : DistinctNames(s)}}

(* Functions that vary in the declared types of one input and of the       *)
(* outputs, all on register r0.                                            *)
TypedValueTypes ==
    {PlaintextValueType("Private", pt) : pt \in PlaintextTypes} \cup {RecordValueType(n) : n \in TypeNames}

(* The outputs of an offered function all declare one type. *)
TypedFunctionCandidates ==
    {[name |-> n, inputs |-> ins,
      instructions |-> <<>>,
      outputs |-> [i \in 1..k |-> [register |-> Locator(0), value_type |-> vt]]] :
        n \in Names,
        ins \in SeqsUpTo([register : {Locator(0)}, value_type : TypedValueTypes], 0, 1),
        k \in 0..MaxOutputs,
        vt \in TypedValueTypes}

(* Functions that vary in the registers of their inputs and destinations,  *)
(* all of type field: the registers r0, r1, ... in order, or that sequence *)
(* with one register replaced by another.                                  *)
OfferedRegisters == {Locator(n) : n \in 0..(MaxInputs + MaxInstructions)} \cup {Member(0, <<"x">>)}

DenseRegisters(n) == [i \in 1..n |-> Locator(i - 1)]

RegisterSeqs(n) ==
    {DenseRegisters(n)} \cup {[DenseRegisters(n) EXCEPT ![p] = q] : p \in 1..n, q \in OfferedRegisters}

FieldPrivate == PlaintextValueType("Private", LiteralType("field"))

AddLiterals(destination) ==
    Instruction("add", <<LiteralOperand("field", 1), LiteralOperand("field", 1)>>, destination)

RegisterFunction(name, ni, nd, regs) ==
    [name |-> name,
     inputs |-> [i \in 1..ni |-> [register |-> regs[i], value_type |-> FieldPrivate]],
     instructions |-> [i \in 1..nd |-> AddLiterals(regs[ni + i])],
     outputs |-> <<>>]

RegisterFunctionCandidates ==
    UNION {{RegisterFunction(n, ni, nd, regs) : n \in Names, regs \in RegisterSeqs(ni + nd)} :
              ni \in 0..MaxInputs, nd \in 0..MaxInstructions}

(* Functions that vary in the registers they read, all of type field. The  *)
(* instruction at position i reads the register before its destination (a  *)
(* literal when there is none); a read of -1 stands for a literal operand. *)
PreviousReads(ni, nd) == [i \in 1..nd |-> ni + i - 2]

(* The reads of the previous register, or those with one read replaced. *)
ReadSeqs(ni, nd) ==
    {PreviousReads(ni, nd)} \cup
    {[PreviousReads(ni, nd) EXCEPT ![p] = q] : p \in 1..nd, q \in (-1)..(ni + nd)}

ReadOperand(n) == IF n < 0 THEN LiteralOperand("field", 1) ELSE RegisterOperand(Locator(n))

(* No output, or one output on any register up to one past the last. *)
OutputSeqs(ni, nd) ==
    {<<>>} \cup {<<[register |-> Locator(q), value_type |-> FieldPrivate]>> : q \in 0..(ni + nd)}

ReadingFunction(name, ni, nd, reads, outputs) ==
    [name |-> name,
     inputs |-> [i \in 1..ni |-> [register |-> Locator(i - 1), value_type |-> FieldPrivate]],
     instructions |-> [i \in 1..nd |->
         Instruction("add", <<ReadOperand(reads[i]), LiteralOperand("field", 1)>>, Locator(ni + i - 1))],
     outputs |-> outputs]

ReadingFunctionCandidates ==
    UNION {{ReadingFunction("a", ni, nd, reads, outputs) : reads \in ReadSeqs(ni, nd), outputs \in OutputSeqs(ni, nd)} :
              ni \in 0..MaxInputs, nd \in 0..MaxInstructions}

(***************************************************************************)
(* The programs that are evaluated, as the components of their text: the   *)
(* functions foo and compute of the evaluation tests, with their inputs    *)
(* and outputs varied in mode, number and register.                        *)
(***************************************************************************)
Component(kind, declaration) == [kind |-> kind, declaration |-> declaration]

message ==
    [name |-> "message",
     members |-> <<[name |-> "first", type |-> LiteralType("field")],
                   [name |-> "second", type |-> LiteralType("field")]>>]

(* The owner and the balance belong to every record; token_amount is the   *)
(* entry of the record type.                                               *)
token ==
    [name |-> "token",
     entries |-> <<[name |-> "token_amount", type |-> EntryType("Private", LiteralType("u64"))]>>]

OutputRegisterCycle == <<Locator(2), Locator(0)>>

ModeCycle == <<"Private", "Public", "Constant">>

(* k outputs of type field: registers and modes in turn, from a start. *)
FieldOutputs(k, s, t) ==
    [i \in 1..k |->
        [register |-> OutputRegisterCycle[((s + i) % Len(OutputRegisterCycle)) + 1],
         value_type |-> PlaintextValueType(ModeCycle[((t + i) % Len(ModeCycle)) + 1], LiteralType("field"))]]

FieldOutputSeqs ==
    {FieldOutputs(k, s, t) :
        k \in 0..MaxReturned, s \in 1..Len(OutputRegisterCycle), t \in 1..Len(ModeCycle)}

foo(mode, outputs) ==
    [name |-> "foo",
     inputs |-> <<[register |-> Locator(0), value_type |-> PlaintextValueType("Public", LiteralType("field"))],
                  [register |-> Locator(1), value_type |-> PlaintextValueType(mode, LiteralType("field"))]>>,
     instructions |-> <<Instruction("add", <<RegisterOperand(Locator(0)), RegisterOperand(Locator(1))>>, Locator(2))>>,
     outputs |-> outputs]

compute_message(mode) ==
    [name |-> "compute",
     inputs |-> <<[register |-> Locator(0), value_type |-> PlaintextValueType(mode, InterfaceType("message"))]>>,
     instructions |-> <<Instruction("add", <<RegisterOperand(Member(0, <<"first">>)),
                                             RegisterOperand(Member(0, <<"second">>))>>, Locator(1))>>,
     outputs |-> <<[register |-> Locator(1), value_type |-> PlaintextValueType("Private", LiteralType("field"))]>>]

compute_token(outputs) ==
    [name |-> "compute",
     inputs |-> <<[register |-> Locator(0), value_type |-> RecordValueType("token")]>>,
     instructions |-> <<Instruction("add", <<RegisterOperand(Member(0, <<"token_amount">>)),
                                             RegisterOperand(Member(0, <<"token_amount">>))>>, Locator(1))>>,
     outputs |-> outputs]

AmountOutput(mode) == [register |-> Locator(1), value_type |-> PlaintextValueType(mode, LiteralType("u64"))]

TokenOutput == [register |-> Locator(0), value_type |-> RecordValueType("token")]

TokenOutputSeqs ==
    {<<AmountOutput("Private")>>, <<TokenOutput>>, <<AmountOutput("Public"), TokenOutput>>,
     <<TokenOutput, AmountOutput("Constant")>>}

TestedFoo == foo("Private", <<[register |-> Locator(2), value_type |-> PlaintextValueType("Private", LiteralType("field"))]>>)

EvaluatedTexts ==
    {<<Component("F", foo(mode, outputs))>> : mode \in Modes, outputs \in FieldOutputSeqs}
    \cup {<<Component("I", message), Component("F", compute_message(mode))>> : mode \in Modes}
    \cup {<<Component("R", token), Component("F", compute_token(outputs))>> : outputs \in TokenOutputSeqs}
    \cup {<<Component("I", message), Component("R", token), Component("F", TestedFoo),
            Component("F", compute_message("Private"))>>,
          <<Component("R", token), Component("F", compute_token(<<AmountOutput("Private")>>)),
            Component("F", TestedFoo)>>}

(* The values passed as inputs. *)
Two == Literal("field", 2)

Three == Literal("field", 3)

MessageValue == InterfaceValue(<<[name |-> "first", value |-> Two], [name |-> "second", value |-> Three]>>)

TokenValue ==
    RecordValue([mode |-> "Private", value |-> "aleo1d5hg2z3ma00382pngntdp68e74zv54jdxy249qhaujhks9c72yrs33ddah"],
                [mode |-> "Private", value |-> Literal("u64", 5)],
                <<[name |-> "token_amount", mode |-> "Private", value |-> Literal("u64", 100)]>>)

InputValues ==
    {PlaintextRegisterValue(Two), PlaintextRegisterValue(MessageValue), RecordRegisterValue(TokenValue)}

InputLists == SeqsUpTo(InputValues, 0, MaxInputs)

(* The names evaluated: functions, an interface and a record. *)
EvaluatedNames == {"foo", "compute", "message", "token"}

(***************************************************************************)
(* The text of a program: a sequence of characters, here the lines of the  *)
(* declarations and the newline characters between them. A line is the     *)
(* sequence of its words, the word that tells its kind first; types and    *)
(* modes are the words the text writes (message, u64, private).            *)
(***************************************************************************)
NL == <<"\n">>

(* The elements of a sequence from i on, each through F. *)
RECURSIVE Each(_, _, _)
Each(F(_), s, i) == IF i > Len(s) THEN <<>> ELSE <<F(s[i])>> \o Each(F, s, i + 1)

(* Every literal type of the language, by the name the text gives it. *)
LiteralTypeNames ==
    {"address", "boolean", "field", "group", "i8", "i16", "i32", "i64", "i128",
     "u8", "u16", "u32", "u64", "u128", "scalar", "string"}

ModeText(mode) ==
    IF mode = "Constant" THEN "constant" ELSE IF mode = "Public" THEN "public" ELSE "private"

(* rN or rN.PATH *)
RegisterText(register) == <<register.n, register.path>>

(* A literal as VALUE and TYPE, or a register. *)
OperandText(operand) ==
    IF operand.tag = "Literal" THEN <<"literal", operand.value, operand.kind>>
    ELSE <<"register", RegisterText(operand.register)>>

(* interface NAME:, record NAME: and function NAME: *)
HeaderLine(kind, name) == <<kind, name>>

(* FIELD as TYPE; *)
MemberLine(member) == <<"member", member.name, member.type.id>>

(* FIELD as TYPE.MODE; *)
EntryLine(entry) == <<"entry", entry.name, entry.type.type.id, ModeText(entry.type.mode)>>

(* input REG as VT; and output REG as VT; where VT is TYPE.MODE or         *)
(* RECORD.record.                                                          *)
ValueLine(line, declared) ==
    <<line, RegisterText(declared.register),
      IF declared.value_type.tag = "Record" THEN declared.value_type.id ELSE declared.value_type.type.id,
      IF declared.value_type.tag = "Record" THEN "record" ELSE ModeText(declared.value_type.tag)>>

InputLine(input) == ValueLine("input", input)

OutputLine(output) == ValueLine("output", output)

(* OPCODE OPERAND* into REG; *)
InstructionLine(instruction) ==
    <<"instruction", instruction.opcode, Each(OperandText, instruction.operands, 1),
      RegisterText(instruction.destination)>>

(* The lines of a declaration, a newline between two lines and none after  *)
(* the last.                                                               *)
RECURSIVE Joined(_, _)
Joined(lines, i) ==
    IF i >= Len(lines) THEN <<lines[i]>> ELSE <<lines[i], NL>> \o Joined(lines, i + 1)

Lines(lines) == Joined(lines, 1)

Interface_fmt(interface) ==
    Lines(<<HeaderLine("interface", interface.name)>> \o Each(MemberLine, interface.members, 1))

RecordType_fmt(record) ==
    Lines(<<HeaderLine("record", record.name)>> \o Each(EntryLine, record.entries, 1))

Function_fmt(function) ==
    Lines(<<HeaderLine("function", function.name)>>
          \o Each(InputLine, function.inputs, 1)
          \o Each(InstructionLine, function.instructions, 1)
          \o Each(OutputLine, function.outputs, 1))

(***************************************************************************)
(* Display: each declaration in the order of identifiers, two newlines     *)
(* after each, and the last character removed.                             *)
(***************************************************************************)
Shown(text, result) == [result |-> result, text |-> text]

(* The declarations of one map in its order, two newlines after each. *)
RECURSIVE push_map(_, _, _)
push_map(F(_), m, i) == IF i > Len(m) THEN <<>> ELSE F(m[i].val) \o <<NL, NL>> \o push_map(F, m, i + 1)

(* Variant: the three maps in turn, each kind together. *)
push_str_by_kind(P, i, program) ==
    Shown(program \o push_map(Interface_fmt, P.interfaces, 1)
                  \o push_map(RecordType_fmt, P.records, 1)
                  \o push_map(Function_fmt, P.functions, 1), Ok)

(* The loop of fmt from identifier i on, program the string so far. *)
RECURSIVE push_str(_, _, _)
push_str(P, i, program) ==
    IF i > Len(P.identifiers) THEN Shown(program, Ok)
    ELSE IF P.identifiers[i].val = "Interface"
        THEN IF contains_key(P.interfaces, P.identifiers[i].key)
             THEN push_str(P, i + 1,
                      program \o Interface_fmt(get(P.interfaces, P.identifiers[i].key)) \o <<NL, NL>>)
             ELSE Shown(program, Err("is not defined.", P.identifiers[i].key))
    ELSE IF P.identifiers[i].val = "Record"
        THEN IF contains_key(P.records, P.identifiers[i].key)
             THEN push_str(P, i + 1,
                      program \o RecordType_fmt(get(P.records, P.identifiers[i].key)) \o <<NL, NL>>)
             ELSE Shown(program, Err("is not defined.", P.identifiers[i].key))
    ELSE IF contains_key(P.functions, P.identifiers[i].key)
        THEN push_str(P, i + 1,
                 program \o Function_fmt(get(P.functions, P.identifiers[i].key)) \o <<NL, NL>>)
    ELSE Shown(program, Err("is not defined.", P.identifiers[i].key))

(* Variant: every newline at the end removed. *)
RECURSIVE pop_newlines(_)
pop_newlines(string) ==
    IF Len(string) > 0 /\ string[Len(string)] = NL THEN pop_newlines(SubSeq(string, 1, Len(string) - 1))
    ELSE string

(* String::pop: the last character removed, if there is one. *)
pop(string) == IF Len(string) = 0 THEN string ELSE SubSeq(string, 1, Len(string) - 1)

(* Variant: the string written as pushed. *)
write_unpopped(pushed) == IF pushed.result # Ok THEN Shown(<<>>, pushed.result) ELSE Shown(pushed.text, Ok)

(* The end of fmt: the string written unless a declaration was missing. *)
write(pushed) == IF pushed.result # Ok THEN Shown(<<>>, pushed.result) ELSE Shown(pop(pushed.text), Ok)

fmt(P) == write(push_str(P, 1, <<>>))

(***************************************************************************)
(* The parsers of the text.                                                *)
(***************************************************************************)
(* Sanitizer::parse: the position after the whitespace that starts at i. *)
RECURSIVE Sanitizer_parse(_, _)
Sanitizer_parse(string, i) ==
    IF i <= Len(string) /\ string[i] = NL THEN Sanitizer_parse(string, i + 1) ELSE i

PlaintextType_parse(name) == IF name \in LiteralTypeNames THEN LiteralType(name) ELSE InterfaceType(name)

Mode_parse(mode) ==
    IF mode = "constant" THEN "Constant" ELSE IF mode = "public" THEN "Public" ELSE "Private"

ValueType_parse(type, mode) ==
    IF mode = "record" THEN RecordValueType(type)
    ELSE PlaintextValueType(Mode_parse(mode), PlaintextType_parse(type))

Register_parse(register) ==
    IF Len(register[2]) = 0 THEN Locator(register[1]) ELSE Member(register[1], register[2])

Operand_parse(operand) ==
    IF operand[1] = "literal" THEN LiteralOperand(operand[3], operand[2])
    ELSE RegisterOperand(Register_parse(operand[2]))

Member_parse(line) == [name |-> line[2], type |-> PlaintextType_parse(line[3])]

Entry_parse(line) ==
    [name |-> line[2], type |-> EntryType(Mode_parse(line[4]), PlaintextType_parse(line[3]))]

Value_parse(line) == Declared(Register_parse(line[2]), ValueType_parse(line[3], line[4]))

Instruction_parse(line) ==
    Instruction(line[2], Each(Operand_parse, line[3], 1), Register_parse(line[4]))

(* The lines of one kind from i on, whitespace before each. *)
RECURSIVE many0(_, _, _, _)
many0(string, i, kind, lines) ==
    IF Sanitizer_parse(string, i) <= Len(string) /\ string[Sanitizer_parse(string, i)][1] = kind
    THEN many0(string, Sanitizer_parse(string, i) + 1, kind, Append(lines, string[Sanitizer_parse(string, i)]))
    ELSE [lines |-> lines, next |-> i]

ParsedComponent(component, next) == [component |-> component, next |-> next]

Interface_members(name, members) ==
    ParsedComponent(
        Component("I", [name |-> name, members |-> Each(Member_parse, members.lines, 1)]), members.next)

(* interface NAME: at i, then its member lines. *)
Interface_parse(string, i) == Interface_members(string[i][2], many0(string, i + 1, "member", <<>>))

RecordType_entries(name, entries) ==
    ParsedComponent(
        Component("R", [name |-> name, entries |-> Each(Entry_parse, entries.lines, 1)]), entries.next)

(* record NAME: at i, then its entry lines. *)
RecordType_parse(string, i) == RecordType_entries(string[i][2], many0(string, i + 1, "entry", <<>>))

Function_outputs(name, inputs, instructions, outputs) ==
    ParsedComponent(
        Component("F", Function(name, Each(Value_parse, inputs.lines, 1),
                                Each(Instruction_parse, instructions.lines, 1),
                                Each(Value_parse, outputs.lines, 1))),
        outputs.next)

Function_instructions(string, name, inputs, instructions) ==
    Function_outputs(name, inputs, instructions, many0(string, instructions.next, "output", <<>>))

Function_inputs(string, name, inputs) ==
    Function_instructions(string, name, inputs, many0(string, inputs.next, "instruction", <<>>))

(* function NAME: at i, then its input lines, its instruction lines and    *)
(* its output lines.                                                       *)
Function_parse(string, i) == Function_inputs(string, string[i][2], many0(string, i + 1, "input", <<>>))

(* alt: the parser the line at i starts a declaration of. *)
alt(string, i) ==
    IF string[i][1] = "interface" THEN Interface_parse(string, i)
    ELSE IF string[i][1] = "record" THEN RecordType_parse(string, i)
    ELSE Function_parse(string, i)

(* Variant: one declaration and no more. *)
many1_once(string, i, components) ==
    IF Sanitizer_parse(string, i) > Len(string)
        \/ string[Sanitizer_parse(string, i)][1] \notin {"interface", "record", "function"}
    THEN [components |-> components, next |-> i]
    ELSE [components |-> Append(components, alt(string, Sanitizer_parse(string, i)).component),
          next |-> alt(string, Sanitizer_parse(string, i)).next]

(* many1: the declarations from i on, up to the first that does not parse. *)
RECURSIVE many1(_, _, _)
RECURSIVE many1_next(_, _, _)
many1_next(string, parsed, components) == many1(string, parsed.next, Append(components, parsed.component))

many1(string, i, components) ==
    IF Sanitizer_parse(string, i) > Len(string)
        \/ string[Sanitizer_parse(string, i)][1] \notin {"interface", "record", "function"}
    THEN [components |-> components, next |-> i]
    ELSE many1_next(string, alt(string, Sanitizer_parse(string, i)), components)

(* The end of from_str: the program unless an add failed or a remainder    *)
(* is left.                                                                *)
ensure_remainder(built, remainder) ==
    IF built.result # Ok THEN Return(new, Err("Failed to parse string.", built.result.msg))
    ELSE IF remainder # <<>>
        THEN Return(new, Err("Failed to parse string. Remaining invalid string is:", ""))
    ELSE built

(* What is left of the string after the declarations and the whitespace. *)
Remainder(string, next) ==
    SubSeq(string, Sanitizer_parse(string, next), Len(string))

from_str_components(string, parsed) ==
    ensure_remainder(parse(parsed.components), Remainder(string, parsed.next))

(* Program::from_str: the declarations of the text parsed, then added in   *)
(* order to a new program.                                                 *)
from_str(string) == from_str_components(string, many1(string, Sanitizer_parse(string, 1), <<>>))

(***************************************************************************)
(* The state machine.                                                      *)
(***************************************************************************)
Threads == 1..MaxThreads

(* A call of evaluate in progress: where it is (idle, running or done),    *)
(* its stack once built, the position of its next instruction, what it     *)
(* returned once done, and whether it took a step while another call was   *)
(* running.                                                                *)
InProgress(pc, name, inputs, stacks, next, result, outputs) ==
    [pc |-> pc, name |-> name, inputs |-> inputs, outputs |-> outputs, stacks |-> stacks,
     next |-> next, result |-> result, met |-> FALSE]

Idle == InProgress("idle", "", <<>>, <<>>, 0, Ok, <<>>)

Init ==
    /\ identifiers = new.identifiers
    /\ interfaces = new.interfaces
    /\ records = new.records
    /\ functions = new.functions
    /\ function_registers = new.function_registers
    /\ last = [op |-> "new", name |-> "", result |-> Ok, flag |-> FALSE]
    /\ pinned = <<>>
    /\ calls = [t \in Threads |-> Idle]

Apply(op, name, r) ==
    /\ identifiers' = r.prog.identifiers
    /\ interfaces' = r.prog.interfaces
    /\ records' = r.prog.records
    /\ functions' = r.prog.functions
    /\ function_registers' = r.prog.function_registers
    /\ last' = [op |-> op, name |-> name, result |-> r.result, flag |-> FALSE]
    /\ UNCHANGED <<pinned, calls>>

AddInterface == \E interface \in InterfaceCandidates :
    Apply("add_interface", interface.name, add_interface(Program, interface))

AddRecord == \E record \in RecordCandidates :
    Apply("add_record", record.name, add_record(Program, record))

Query(op, name, flag) ==
    /\ last' = [op |-> op, name |-> name, result |-> Ok, flag |-> flag]
    /\ UNCHANGED <<identifiers, interfaces, records, functions, function_registers, pinned, calls>>

IsReservedName == \E name \in Names : Query("is_reserved_name", name, is_reserved_name(Program, name))

AddFunction == \E function \in TypedFunctionCandidates :
    Apply("add_function", function.name, add_function(Program, function))

AddRegisterFunction == \E function \in RegisterFunctionCandidates :
    Apply("add_function", function.name, add_function(Program, function))

Next == AddInterface \/ AddRecord \/ AddFunction \/ IsReservedName

Spec == Init /\ [][Next]_vars

(* The builder offered the functions that vary in their registers. *)
NextRegisters == AddRegisterFunction

SpecRegisters == Init /\ [][NextRegisters]_vars

AddReadingFunction == \E function \in ReadingFunctionCandidates :
    Apply("add_function", function.name, add_function(Program, function))

(* The builder offered the functions that vary in the registers they read. *)
NextReads == AddReadingFunction

SpecReads == Init /\ [][NextReads]_vars

(* The program parsed from one of the evaluated texts. *)
Parsed(parsed) ==
    /\ parsed.result = Ok
    /\ identifiers = parsed.prog.identifiers
    /\ interfaces = parsed.prog.interfaces
    /\ records = parsed.prog.records
    /\ functions = parsed.prog.functions
    /\ function_registers = parsed.prog.function_registers
    /\ last = [op |-> "parse", name |-> "", result |-> Ok, flag |-> FALSE]
    /\ pinned = <<>>
    /\ calls = [t \in Threads |-> Idle]

InitParsed == \E text \in EvaluatedTexts : Parsed(parse(text))

(* What the caller of evaluate holds after the call. *)
Call(name, inputs, r) ==
    [op |-> "evaluate", name |-> name, inputs |-> inputs, outputs |-> r.outputs,
     stacks |-> r.stacks, result |-> r.result, executed |-> r.executed, flag |-> FALSE]

Returned(name, inputs, r) ==
    /\ identifiers' = r.prog.identifiers
    /\ interfaces' = r.prog.interfaces
    /\ records' = r.prog.records
    /\ functions' = r.prog.functions
    /\ function_registers' = r.prog.function_registers
    /\ last' = Call(name, inputs, r)

Evaluate == \E name \in EvaluatedNames, inputs \in InputLists :
    /\ Returned(name, inputs, evaluate(Program, name, inputs))
    /\ UNCHANGED <<pinned, calls>>

(* Calls of evaluate on a parsed program. *)
NextEvaluate == Evaluate

SpecEvaluate == InitParsed /\ [][NextEvaluate]_vars

(* The programs of the three evaluation tests, and two programs that hold  *)
(* two functions.                                                          *)
TestedTexts ==
    {<<Component("F", TestedFoo)>>,
     <<Component("I", message), Component("F", compute_message("Private"))>>,
     <<Component("R", token), Component("F", compute_token(<<AmountOutput("Private")>>))>>,
     <<Component("I", message), Component("R", token), Component("F", TestedFoo),
       Component("F", compute_message("Private"))>>,
     <<Component("R", token), Component("F", compute_token(<<AmountOutput("Private")>>)),
       Component("F", TestedFoo)>>}

InitTested == \E text \in TestedTexts : Parsed(parse(text))

(* The calls of the tests, and calls with an input missing, an input of    *)
(* another type, and a name that is no function.                           *)
TestedCalls ==
    {[name |-> "foo", inputs |-> <<PlaintextRegisterValue(Two), PlaintextRegisterValue(Three)>>],
     [name |-> "foo", inputs |-> <<PlaintextRegisterValue(Two)>>],
     [name |-> "foo", inputs |-> <<PlaintextRegisterValue(Two), PlaintextRegisterValue(MessageValue)>>],
     [name |-> "compute", inputs |-> <<PlaintextRegisterValue(MessageValue)>>],
     [name |-> "compute", inputs |-> <<RecordRegisterValue(TokenValue)>>],
     [name |-> "compute", inputs |-> <<PlaintextRegisterValue(Two)>>],
     [name |-> "message", inputs |-> <<>>],
     [name |-> "token", inputs |-> <<RecordRegisterValue(TokenValue)>>]}

(* The call kept aside, marked once another call was made after it. *)
Noted(call) ==
    IF pinned # <<>> /\ (pinned[1].name # call.name \/ pinned[1].inputs # call.inputs)
    THEN <<[pinned[1] EXCEPT !.others = TRUE]>>
    ELSE pinned

EvaluateTested == \E call \in TestedCalls :
    /\ Returned(call.name, call.inputs, evaluate(Program, call.name, call.inputs))
    /\ pinned' = Noted(call)
    /\ UNCHANGED calls

(* The caller keeps one call and its result aside, to compare with what    *)
(* the later calls return.                                                 *)
EvaluatePinning == \E call \in TestedCalls :
    /\ pinned = <<>>
    /\ Returned(call.name, call.inputs, evaluate(Program, call.name, call.inputs))
    /\ pinned' = <<[name |-> call.name, inputs |-> call.inputs, outputs |-> last'.outputs,
                    result |-> last'.result, others |-> FALSE]>>
    /\ UNCHANGED calls

(* Calls of evaluate in any order on the program of a test. *)
NextRepeated == EvaluateTested \/ EvaluatePinning

SpecRepeated == InitTested /\ [][NextRepeated]_vars

(* The call of thread t after a step, marked when another call is running. *)
Met(t, before, call) ==
    [call EXCEPT !.met = before \/ \E u \in Threads \ {t} : calls[u].pc = "running"]

(* Variant: one stack, that of the first call that built one, for all. *)
own_stack_shared(cs, t) == cs[CHOOSE u \in Threads : cs[u].stacks # <<>> /\ \A v \in Threads : cs[v].stacks # <<>> => u <= v].stacks[1]

(* The stack of a call: a local of that call. *)
own_stack(cs, t) == cs[t].stacks[1]

finish_begin(name, inputs, built) ==
    IF built.result # Ok THEN InProgress("done", name, inputs, <<>>, 0, built.result, <<>>)
    ELSE InProgress("running", name, inputs, <<built.stack>>, 1, Ok, <<>>)

(* The start of a call: the function, the count of the inputs, the         *)
(* register types and the new stack.                                       *)
begin(P, name, inputs) ==
    IF ~contains_key(P.functions, name)
    THEN InProgress("done", name, inputs, <<>>, 0, Err("Function is not defined.", name), <<>>)
    ELSE IF Len(get(P.functions, name).inputs) # Len(inputs)
    THEN InProgress("done", name, inputs, <<>>, 0, Err("Expected inputs, found", name), <<>>)
    ELSE IF ~contains_key(P.function_registers, name)
    THEN InProgress("done", name, inputs, <<>>, 0, Err("Function is missing its function registers", name), <<>>)
    ELSE finish_begin(name, inputs, Stack_new(P, get(P.function_registers, name), inputs))

Begin(t) == \E call \in TestedCalls :
    /\ calls[t].pc \in {"idle", "done"}
    /\ calls' = [calls EXCEPT ![t] = Met(t, FALSE, begin(Program, call.name, call.inputs))]
    /\ UNCHANGED <<identifiers, interfaces, records, functions, function_registers, last, pinned>>

(* One instruction of the function of the call, on the stack of the call. *)
Executing(call, step) ==
    IF step.result # Ok
    THEN InProgress("done", call.name, call.inputs, call.stacks, call.next - 1, step.result, <<>>)
    ELSE InProgress("running", call.name, call.inputs, <<step.stack>>, call.next + 1, Ok, <<>>)

Execute(t) ==
    /\ calls[t].pc = "running"
    /\ calls[t].next <= Len(get(functions, calls[t].name).instructions)
    /\ calls' = [calls EXCEPT ![t] =
            Met(t, calls[t].met,
                Executing(calls[t], execute(own_stack(calls, t),
                                            get(functions, calls[t].name).instructions[calls[t].next])))]
    /\ UNCHANGED <<identifiers, interfaces, records, functions, function_registers, last, pinned>>

(* The outputs of the call, loaded from the stack of the call. *)
Finishing(call, loaded) ==
    InProgress("done", call.name, call.inputs, call.stacks, call.next - 1, loaded.result, loaded.outputs)

Finish(t) ==
    /\ calls[t].pc = "running"
    /\ calls[t].next > Len(get(functions, calls[t].name).instructions)
    /\ calls' = [calls EXCEPT ![t] =
            Met(t, calls[t].met,
                Finishing(calls[t], load_outputs(own_stack(calls, t),
                                                 to_outputs(get(function_registers, calls[t].name)), 1, <<>>)))]
    /\ UNCHANGED <<identifiers, interfaces, records, functions, function_registers, last, pinned>>

(* Calls of evaluate by several threads on the program of a test, their    *)
(* steps interleaved.                                                      *)
NextConcurrent == \E t \in Threads : Begin(t) \/ Execute(t) \/ Finish(t)

SpecConcurrent == InitTested /\ [][NextConcurrent]_vars

(***************************************************************************)
(* Programs written as text, built from text and displayed.                *)
(***************************************************************************)
(* The declarations as the tests write them: the interface message, the   *)
(* record token, the function foo and the two functions compute.           *)
message_text ==
    <<<<"interface", "message">>, NL,
      <<"member", "first", "field">>, NL,
      <<"member", "second", "field">>>>

token_text ==
    <<<<"record", "token">>, NL,
      <<"entry", "token_amount", "u64", "private">>>>

foo_text ==
    <<<<"function", "foo">>, NL,
      <<"input", <<0, <<>>>>, "field", "public">>, NL,
      <<"input", <<1, <<>>>>, "field", "private">>, NL,
      <<"instruction", "add", <<<<"register", <<0, <<>>>>>>, <<"register", <<1, <<>>>>>>>>, <<2, <<>>>>>>, NL,
      <<"output", <<2, <<>>>>, "field", "private">>>>

compute_message_text ==
    <<<<"function", "compute">>, NL,
      <<"input", <<0, <<>>>>, "message", "private">>, NL,
      <<"instruction", "add", <<<<"register", <<0, <<"first">>>>>>, <<"register", <<0, <<"second">>>>>>>>,
        <<1, <<>>>>>>, NL,
      <<"output", <<1, <<>>>>, "field", "private">>>>

compute_token_text ==
    <<<<"function", "compute">>, NL,
      <<"input", <<0, <<>>>>, "token", "record">>, NL,
      <<"instruction", "add", <<<<"register", <<0, <<"token_amount">>>>>>,
                                <<"register", <<0, <<"token_amount">>>>>>>>, <<1, <<>>>>>>, NL,
      <<"output", <<1, <<>>>>, "u64", "private">>>>

DeclarationTexts == {message_text, token_text, foo_text, compute_message_text, compute_token_text}

(* The declarations of a text: one, two in either order, or those of the   *)
(* tests together, kinds interleaved.                                      *)
DeclarationLists ==
    {<<first>> : first \in DeclarationTexts}
    \cup {<<first, second>> : first \in DeclarationTexts, second \in DeclarationTexts}
    \cup {<<message_text, compute_message_text, token_text>>,
          <<foo_text, message_text, token_text, compute_message_text>>}

RECURSIVE Newlines(_)
Newlines(n) == IF n = 0 THEN <<>> ELSE <<NL>> \o Newlines(n - 1)

(* The declarations from i on as someone writes them: gap newlines after   *)
(* each but the last, trailing newlines after the last.                    *)
RECURSIVE Written(_, _, _, _)
Written(declarations, i, gap, trailing) ==
    IF i > Len(declarations) THEN <<>>
    ELSE declarations[i]
         \o Newlines(IF i = Len(declarations) THEN trailing ELSE gap)
         \o Written(declarations, i + 1, gap, trailing)

(* Declarations separated by one blank line, one newline after the last. *)
Canonical(declarations) == Written(declarations, 1, 2, 1)

(* A line that belongs to no declaration. *)
Stray == <<<<"member", "first", "field">>>>

Texts ==
    {Written(declarations, 1, gap, trailing) :
        declarations \in DeclarationLists, gap \in 1..MaxNewlines, trailing \in 0..MaxNewlines}
    \cup {Newlines(n) : n \in 0..MaxNewlines}
    \cup {Stray \o <<NL>> \o Canonical(<<message_text>>), Canonical(<<foo_text>>) \o Stray \o <<NL>>}

(* let program = Program::from_str(string): the caller holds the program  *)
(* built from the text; a text that fails gives no program, the maps are   *)
(* those of a new one.                                                     *)
Built(string, built) ==
    /\ identifiers' = built.prog.identifiers
    /\ interfaces' = built.prog.interfaces
    /\ records' = built.prog.records
    /\ functions' = built.prog.functions
    /\ function_registers' = built.prog.function_registers
    /\ last' = [op |-> "from_str", name |-> "", result |-> built.result, flag |-> FALSE, text |-> string]
    /\ UNCHANGED <<pinned, calls>>

FromStr == \E string \in Texts : Built(string, from_str(string))

(* The declaration that its text parses to, added to the program. *)
Added(component) ==
    Apply(IF component.kind = "I" THEN "add_interface"
          ELSE IF component.kind = "R" THEN "add_record" ELSE "add_function",
          component.declaration.name, add_component(Program, component))

AddComponent == \E declaration \in DeclarationTexts : Added(alt(declaration, 1).component)

(* format!("{program}"): what the caller holds is the text. *)
Displayed(shown) ==
    /\ last' = [op |-> "display", name |-> "", result |-> shown.result, flag |-> FALSE, text |-> shown.text]
    /\ UNCHANGED <<identifiers, interfaces, records, functions, function_registers, pinned, calls>>

Display == Displayed(fmt(Program))

NextText == FromStr \/ AddComponent \/ Display

SpecText == Init /\ [][NextText]_vars

(***************************************************************************)
(* Properties of the builder.                                              *)
(***************************************************************************)
maps == <<identifiers, interfaces, records, functions, function_registers>>

AddOps == {"add_interface", "add_record", "add_function"}

(* The reserved keyword list of the textual interface. *)
ReservedKeywordList ==
    {"const", "constant", "public", "private", "address", "boolean", "field", "group",
     "i8", "i16", "i32", "i64", "i128", "u8", "u16", "u32", "u64", "u128", "scalar",
     "string", "true", "false", "input", "output", "as", "into", "function",
     "interface", "record", "program", "global", "return", "break", "assert",
     "continue", "let", "if", "else", "while", "for", "switch", "case", "default",
     "match", "enum", "struct", "union", "trait", "impl", "type"}

(* C1: an add operation that returns an error leaves all five maps as they *)
(* were before the call.                                                   *)
C1_ErrorLeavesProgramUnchanged ==
    [][(last'.op \in AddOps /\ last'.result # Ok) => UNCHANGED maps]_vars

(* An add failed on its member check in a program that holds declarations. *)
C1_Witness ==
    /\ last.op = "add_interface"
    /\ last.result.msg = "in interface is not defined."
    /\ Len(identifiers) > 0

(* No name is bound to two declarations. *)
NoDoubleBinding ==
    /\ \A i, j \in 1..Len(identifiers) : identifiers[i].key = identifiers[j].key => i = j
    /\ \A m \in {interfaces, records, functions} :
          \A i, j \in 1..Len(m) : m[i].key = m[j].key => i = j
    /\ Keys(interfaces) \cap Keys(records) = {}
    /\ Keys(interfaces) \cap Keys(functions) = {}
    /\ Keys(records) \cap Keys(functions) = {}

(* C2: an add under a name that identifiers already holds, under whatever  *)
(* kind, returns an error and leaves the program unchanged; no name is     *)
(* ever bound to two declarations.                                         *)
C2_DuplicateNameRejected ==
    [][/\ (last'.op \in AddOps /\ contains_key(identifiers, last'.name))
            => (last'.result # Ok /\ UNCHANGED maps)
       /\ NoDoubleBinding']_vars

(* A record was refused under the name of a declared interface. *)
C2_Witness ==
    /\ last.op = "add_record"
    /\ last.result = Err("is already in use.", last.name)
    /\ contains_key(interfaces, last.name)

(* C3: a name is a key of interfaces, records or functions exactly when    *)
(* identifiers gives it that tag; the three key sets are disjoint and      *)
(* their union is the key set of identifiers.                              *)
C3_IdentifiersMatchDeclarations ==
    /\ \A n \in Names \cup Keys(identifiers) \cup Keys(interfaces) \cup Keys(records) \cup Keys(functions) :
        /\ contains_key(interfaces, n) <=> (contains_key(identifiers, n) /\ get(identifiers, n) = "Interface")
        /\ contains_key(records, n) <=> (contains_key(identifiers, n) /\ get(identifiers, n) = "Record")
        /\ contains_key(functions, n) <=> (contains_key(identifiers, n) /\ get(identifiers, n) = "Function")
    /\ Keys(interfaces) \cap Keys(records) = {}
    /\ Keys(interfaces) \cap Keys(functions) = {}
    /\ Keys(records) \cap Keys(functions) = {}
    /\ Keys(interfaces) \cup Keys(records) \cup Keys(functions) = Keys(identifiers)

(* A program that holds a record and a declaration of another kind, after  *)
(* a failed add.                                                           *)
C3_Witness ==
    /\ Len(records) = 1
    /\ Len(interfaces) + Len(functions) = 1
    /\ last.op \in AddOps /\ last.result # Ok

(* C4: every interface type that a stored interface member or a stored     *)
(* record entry names is a key of interfaces.                              *)
C4_ReferencesResolve ==
    /\ \A i \in 1..Len(interfaces) : \A j \in 1..Len(interfaces[i].val.members) :
          interfaces[i].val.members[j].type.tag = "Interface"
              => contains_key(interfaces, interfaces[i].val.members[j].type.id)
    /\ \A i \in 1..Len(records) : \A j \in 1..Len(records[i].val.entries) :
          records[i].val.entries[j].type.type.tag = "Interface"
              => contains_key(interfaces, records[i].val.entries[j].type.type.id)

(* A stored record has an entry of an interface type. *)
C4_Witness ==
    \E i \in 1..Len(records) : \E j \in 1..Len(records[i].val.entries) :
        records[i].val.entries[j].type.type.tag = "Interface"

SelfReferent(interface) ==
    \E j \in 1..Len(interface.members) : interface.members[j].type = InterfaceType(interface.name)

(* C5: a stored interface names only interfaces inserted before it, and an *)
(* interface with a member of its own type is rejected.                    *)
C5_Acyclic ==
    /\ \A i \in 1..Len(interfaces) : \A j \in 1..Len(interfaces[i].val.members) :
          interfaces[i].val.members[j].type.tag = "Interface"
              => \E k \in 1..(i - 1) : interfaces[k].key = interfaces[i].val.members[j].type.id
    /\ \A c \in InterfaceCandidates : SelfReferent(c) => add_interface(Program, c).result # Ok

(* The second interface names the first. *)
C5_Witness ==
    /\ Len(interfaces) = 2
    /\ \E j \in 1..Len(interfaces[2].val.members) :
          interfaces[2].val.members[j].type = InterfaceType(interfaces[1].key)

HasUndefinedMember(P, interface) ==
    \E j \in 1..Len(interface.members) :
        /\ interface.members[j].type.tag = "Interface"
        /\ ~contains_key(P.interfaces, interface.members[j].type.id)

(* C6, as stated: an interface with a member of an interface type that is  *)
(* not a key of interfaces is refused, and afterwards the program has no   *)
(* interface of the attempted name.                                        *)
C6_Original ==
    \A c \in InterfaceCandidates : HasUndefinedMember(Program, c) =>
        /\ add_interface(Program, c).result # Ok
        /\ ~contains_key(add_interface(Program, c).prog.interfaces, c.name)

(* C6, amended: such an interface is refused and the program is left as it *)
(* was, so it has no interface of the attempted name unless one was        *)
(* declared before the call; a record or function of the name of the       *)
(* member type does not resolve it.                                        *)
C6_UndefinedMemberRejected ==
    \A c \in InterfaceCandidates : HasUndefinedMember(Program, c) =>
        /\ add_interface(Program, c).result # Ok
        /\ add_interface(Program, c).prog = Program
        /\ ~contains_key(interfaces, c.name)
              => ~contains_key(add_interface(Program, c).prog.interfaces, c.name)

(* An interface was refused for a member type that names a declared record *)
(* or function.                                                            *)
C6_Witness ==
    /\ last.op = "add_interface"
    /\ last.result.msg = "in interface is not defined."
    /\ contains_key(identifiers, last.result.subject)
    /\ ~contains_key(interfaces, last.name)

ReservedMember(members) == \E j \in 1..Len(members) : members[j].name \in ReservedKeywordList

(* C7: no key of identifiers and no stored member or entry name is a       *)
(* reserved keyword; every add under a reserved name, and every add of an  *)
(* interface or record with a reserved member or entry name, is refused.   *)
C7_ReservedRejected ==
    /\ Keys(identifiers) \cap ReservedKeywordList = {}
    /\ \A i \in 1..Len(interfaces) : ~ReservedMember(interfaces[i].val.members)
    /\ \A i \in 1..Len(records) : ~ReservedMember(records[i].val.entries)
    /\ \A c \in InterfaceCandidates :
          (c.name \in ReservedKeywordList \/ ReservedMember(c.members))
              => add_interface(Program, c).result # Ok
    /\ \A c \in RecordCandidates :
          (c.name \in ReservedKeywordList \/ ReservedMember(c.entries))
              => add_record(Program, c).result # Ok
    /\ \A c \in TypedFunctionCandidates :
          c.name \in ReservedKeywordList => add_function(Program, c).result # Ok

(* An interface under a free name was refused for a reserved member name,  *)
(* in a program that holds declarations.                                   *)
C7_Witness ==
    /\ last.op = "add_interface"
    /\ last.result = Err("is a reserved keyword.", "as")
    /\ last.name \notin ReservedKeywordList
    /\ Len(identifiers) > 0

(* Names put to is_reserved_name: the keywords, the offered names and some *)
(* near misses.                                                            *)
KeywordProbes ==
    ReservedKeywordList \cup Names \cup FieldNames
        \cup {"", "Record", "records", "recor", "i256", "u", "Type", "types", "constants"}

ReservedExactly ==
    /\ \A name \in KeywordProbes : is_reserved_name(Program, name) <=> name \in ReservedKeywordList
    /\ last.op = "is_reserved_name" => (last.flag <=> last.name \in ReservedKeywordList)

(* C8, as stated: is_reserved_name is true exactly of the keywords of the  *)
(* reserved keyword list, which are 32, whatever the program holds.        *)
C8_Original == ReservedExactly /\ Cardinality(ReservedKeywordList) = 32

(* C8, amended: is_reserved_name is true exactly of the keywords of the    *)
(* reserved keyword list, which are 50, whatever the program holds.        *)
C8_ReservedNames == ReservedExactly /\ Cardinality(ReservedKeywordList) = 50

(* A keyword was recognised in a program that holds declarations. *)
C8_Witness ==
    /\ last.op = "is_reserved_name"
    /\ last.flag
    /\ Len(identifiers) > 0

(***************************************************************************)
(* Properties of the register discipline of add_function.                  *)
(***************************************************************************)
(* The registers a function assigns: its inputs, then the destinations of  *)
(* its instructions.                                                       *)
AssignedRegisters(function) ==
    [i \in 1..Len(function.inputs) |-> function.inputs[i].register]
        \o [i \in 1..Len(function.instructions) |-> function.instructions[i].destination]

AssignedLocators(registers) == KeySeq(registers.inputs) \o KeySeq(registers.destinations)

Dense(function) ==
    \A i \in 1..Len(AssignedRegisters(function)) : AssignedRegisters(function)[i] = Locator(i - 1)

(* C9: in every accepted function the locators of the inputs followed by   *)
(* the destinations are 0, 1, ..., k in declaration order, and a function  *)
(* that breaks this sequence is rejected.                                  *)
C9_LocatorsDense ==
    /\ \A i \in 1..Len(functions) : Dense(functions[i].val)
    /\ \A i \in 1..Len(function_registers) :
          \A j \in 1..Len(AssignedLocators(function_registers[i].val)) :
              AssignedLocators(function_registers[i].val)[j] = j - 1
    /\ \A c \in RegisterFunctionCandidates : ~Dense(c) => add_function(Program, c).result # Ok

(* A function with a gap in its input locators was rejected by a program   *)
(* that holds a function with two inputs and a destination.                *)
C9_Witness ==
    /\ last.op = "add_function"
    /\ last.result.msg = "Input register is out of order."
    /\ \E i \in 1..Len(functions) :
          Len(functions[i].val.inputs) = 2 /\ Len(functions[i].val.instructions) = 1

MemberDestination(function) ==
    \E i \in 1..Len(function.instructions) : function.instructions[i].destination.tag = "Member"

RepeatedLocator(function) ==
    \E i, j \in 1..Len(AssignedRegisters(function)) :
        i # j /\ AssignedRegisters(function)[i].n = AssignedRegisters(function)[j].n

(* C10: in the register types of every accepted function no locator is     *)
(* assigned twice and no destination is a member register; a function with *)
(* a member destination or a locator assigned twice is rejected.           *)
C10_WriteOnceLocators ==
    /\ \A i \in 1..Len(function_registers) :
          \A j, k \in 1..Len(AssignedLocators(function_registers[i].val)) :
              AssignedLocators(function_registers[i].val)[j] = AssignedLocators(function_registers[i].val)[k]
                  => j = k
    /\ \A i \in 1..Len(functions) :
          ~MemberDestination(functions[i].val) /\ ~RepeatedLocator(functions[i].val)
    /\ \A c \in RegisterFunctionCandidates :
          (MemberDestination(c) \/ RepeatedLocator(c)) => add_function(Program, c).result # Ok

(* A function was rejected for its member destination by a program that    *)
(* holds a function with two destinations.                                 *)
C10_Witness ==
    /\ last.op = "add_function"
    /\ last.result.msg = "Destination register must be a locator."
    /\ \E i \in 1..Len(functions) : Len(functions[i].val.instructions) = 2

(***************************************************************************)
(* The types of the outputs.                                               *)
(***************************************************************************)
OutputValueTypes ==
    {PlaintextValueType(m, pt) : m \in Modes, pt \in PlaintextTypes} \cup {RecordValueType(n) : n \in TypeNames}

(* Functions with one input r0 and one output on r0, of any two declared   *)
(* types and any output mode.                                              *)
OutputFunctionCandidates ==
    {[name |-> n,
      inputs |-> <<[register |-> Locator(0), value_type |-> it]>>,
      instructions |-> <<>>,
      outputs |-> <<[register |-> Locator(0), value_type |-> ot]>>] :
        n \in Names, it \in TypedValueTypes, ot \in OutputValueTypes}

(* C11: every output of an accepted function is declared with the type of  *)
(* its register, the mode dropped (plaintext with plaintext of the same    *)
(* type, record with record of the same name); add_function succeeds on no *)
(* function whose output type differs from the type of its register.       *)
C11_OutputTypesMatch ==
    /\ \A i \in 1..Len(functions) :
          \A j \in 1..Len(functions[i].val.outputs) :
              LET output == functions[i].val.outputs[j]
                  register_type == get_type(Program, get(function_registers, functions[i].key), output.register)
              IN  /\ register_type.result = Ok
                  /\ register_type.type = RegisterTypeOf(output.value_type)
    /\ \A c \in OutputFunctionCandidates :
          add_function(Program, c).result = Ok
              => RegisterTypeOf(c.inputs[1].value_type) = RegisterTypeOf(c.outputs[1].value_type)

(* A function was rejected for an output whose kind is not the kind of its *)
(* register, by a program that holds a record.                             *)
C11_Witness ==
    /\ last.op = "add_function"
    /\ last.result.msg = "Output does not match the expected output register type."
    /\ Len(records) > 0

(***************************************************************************)
(* Definition before use.                                                  *)
(***************************************************************************)
(* The locator is that of an input or of the destination of an instruction *)
(* before position i.                                                      *)
DefinedBefore(function, n, i) ==
    \/ \E k \in 1..Len(function.inputs) : function.inputs[k].register.n = n
    \/ \E j \in 1..Len(function.instructions) : j < i /\ function.instructions[j].destination.n = n

DefinitionBeforeUse(function) ==
    /\ \A i \in 1..Len(function.instructions) :
          \A k \in 1..Len(function.instructions[i].operands) :
              function.instructions[i].operands[k].tag = "Register"
                  => DefinedBefore(function, function.instructions[i].operands[k].register.n, i)
    /\ \A o \in 1..Len(function.outputs) :
          DefinedBefore(function, function.outputs[o].register.n, Len(function.instructions) + 1)

(* C12: in every accepted function each register operand of an instruction *)
(* is an input or the destination of an earlier instruction (never its own *)
(* destination or a later one) and each output register is an input or a   *)
(* destination; add_function fails on every function where this is not so. *)
C12_DefinitionBeforeUse ==
    /\ \A i \in 1..Len(functions) : DefinitionBeforeUse(functions[i].val)
    /\ \A c \in ReadingFunctionCandidates : ~DefinitionBeforeUse(c) => add_function(Program, c).result # Ok

(* A function of two instructions, the first reading a register that no    *)
(* input and no earlier instruction assigns, was rejected.                 *)
C12_Witness ==
    /\ last.op = "add_function"
    /\ last.result.msg = "Register is not defined."
    /\ Len(functions) = 0
    /\ \E c \in ReadingFunctionCandidates :
          /\ Len(c.instructions) = 2
          /\ c.instructions[1].operands[1] = RegisterOperand(c.instructions[1].destination)
          /\ add_function(Program, c).result = last.result

(***************************************************************************)
(* Properties of evaluate.                                                 *)
(***************************************************************************)
(* The last operation was a call of evaluate on a function of the program. *)
CalledFunction == last.op = "evaluate" /\ contains_key(functions, last.name)

(* C13: a call of evaluate whose number of inputs differs from the number  *)
(* of declared inputs of the function returns the error of the input       *)
(* count, with no output, before a stack is built or an instruction runs.  *)
C13_InputCountChecked ==
    (CalledFunction /\ Len(last.inputs) # Len(get(functions, last.name).inputs))
        => /\ last.result = Err("Expected inputs, found", last.name)
           /\ last.outputs = <<>>
           /\ last.stacks = <<>>
           /\ last.executed = 0

(* The function foo of two inputs was called with one input. *)
C13_Witness ==
    /\ CalledFunction
    /\ last.name = "foo"
    /\ Len(get(functions, last.name).inputs) = 2
    /\ Len(last.inputs) = 1
    /\ last.result.msg = "Expected inputs, found"

(* C14: a call of evaluate on a name that is no key of functions, be it    *)
(* undeclared or the name of an interface or of a record, returns the      *)
(* error that the function is not defined, and no output.                  *)
C14_UndefinedFunctionRejected ==
    (last.op = "evaluate" /\ ~contains_key(functions, last.name))
        => /\ last.result = Err("Function is not defined.", last.name)
           /\ last.outputs = <<>>
           /\ last.stacks = <<>>

(* The name of a record was evaluated, with the input that a function of   *)
(* the program expects, in a program that also declares an interface.      *)
C14_Witness ==
    /\ last.op = "evaluate"
    /\ contains_key(records, last.name)
    /\ Len(interfaces) > 0
    /\ Len(last.inputs) = 2
    /\ last.result.msg = "Function is not defined."

(* C16: a call of evaluate, whether it returns outputs or an error, leaves *)
(* the five maps of the program, the stored register types among them, as  *)
(* they were.                                                              *)
C16_EvaluateLeavesProgramUnchanged ==
    [][last'.op = "evaluate" => UNCHANGED maps]_vars

(* A call built a stack, ran an instruction and returned an output. *)
C16_Witness ==
    /\ CalledFunction
    /\ last.result = Ok
    /\ last.stacks # <<>>
    /\ last.executed > 0
    /\ Len(last.outputs) > 0
    /\ last.stacks[1].register_types = get(function_registers, last.name)

(* The pairing of every register value with every output type. *)
PairedTypes ==
    {PlaintextValueType(m, LiteralType("field")) : m \in Modes} \cup {RecordValueType("token")}

(* C18: each returned value carries the mode of the declared type of its   *)
(* output (Constant, Public, Private, or Record for a record), whatever    *)
(* the modes of the inputs; a plaintext paired with a record type, or a    *)
(* record with a plaintext type, is an error.                              *)
C18_ModeOfDeclaredOutput ==
    /\ (CalledFunction /\ last.result = Ok)
          => /\ Len(last.outputs) = Len(get(functions, last.name).outputs)
             /\ \A i \in 1..Len(last.outputs) :
                   last.outputs[i].tag = get(functions, last.name).outputs[i].value_type.tag
    /\ \A register_value \in InputValues, value_type \in PairedTypes :
          LET paired == output_value(register_value, value_type)
          IN  IF (register_value.tag = "Record") = (value_type.tag = "Record")
              THEN paired.result = Ok /\ paired.value.tag = value_type.tag
              ELSE paired.result # Ok

(* An input declared public was returned by an output declared constant. *)
C18_Witness ==
    /\ CalledFunction
    /\ last.result = Ok
    /\ \E i \in 1..Len(last.outputs) :
          LET output == get(functions, last.name).outputs[i]
          IN  /\ output.register = Locator(0)
              /\ get(functions, last.name).inputs[1].value_type.tag = "Public"
              /\ output.value_type.tag = "Constant"
              /\ last.outputs[i] = PlaintextValue("Constant", last.inputs[1].plaintext)

(* The content of a locator in a stack, as plaintext or as record. *)
Content(stack, register) ==
    LET assigned == get(stack.registers, register.n)
    IN  IF assigned.tag = "Plaintext" THEN [plaintext |-> assigned.plaintext] ELSE [record |-> assigned.record]

ContentOf(value) ==
    IF value.tag = "Record" THEN [record |-> value.record] ELSE [plaintext |-> value.plaintext]

(* C19: a successful call of evaluate returns one value for each declared  *)
(* output, in the order of declaration, the value at position i being the  *)
(* content of the register of output i in the stack after every            *)
(* instruction of the function ran.                                        *)
C19_OutputsInDeclarationOrder ==
    (CalledFunction /\ last.result = Ok)
        => LET function == get(functions, last.name)
           IN  /\ last.executed = Len(function.instructions)
               /\ Len(last.outputs) = Len(function.outputs)
               /\ \A i \in 1..Len(function.outputs) :
                     /\ contains_key(last.stacks[1].registers, function.outputs[i].register.n)
                     /\ ContentOf(last.outputs[i]) = Content(last.stacks[1], function.outputs[i].register)

(* Two outputs of different content were returned, the sum first. *)
C19_Witness ==
    /\ CalledFunction
    /\ last.result = Ok
    /\ Len(last.outputs) = 2
    /\ get(functions, last.name).outputs[1].register = Locator(2)
    /\ get(functions, last.name).outputs[2].register = Locator(0)
    /\ last.outputs[1].plaintext = Literal("field", 4)
    /\ last.outputs[2].plaintext = Two

(* The text of the record test: the record token and the function compute. *)
TokenText == <<Component("R", token), Component("F", compute_token(<<AmountOutput("Private")>>))>>

(* A function whose input r0 is a record and that reads a member of r0. *)
ReadsEntry(function) ==
    /\ Len(function.inputs) > 0
    /\ function.inputs[1].value_type.tag = "Record"
    /\ \E i \in 1..Len(function.instructions) :
          \E k \in 1..Len(function.instructions[i].operands) :
              function.instructions[i].operands[k] = RegisterOperand(Member(0, <<"token_amount">>))

(* C20: a function whose input r0 is declared with a record type and whose *)
(* instruction reads the member r0.token_amount is accepted, the           *)
(* destination of the instruction typed with the plaintext type of the     *)
(* entry; every call of it on a record of that type returns Ok, the        *)
(* destination holding the sum of the entry with itself.                   *)
C20_RecordEntryOperand ==
    /\ parse(TokenText).result = Ok
    /\ \A i \in 1..Len(functions) :
          ReadsEntry(functions[i].val)
              => get(get(function_registers, functions[i].key).destinations, 1)
                     = PlaintextRegisterType(MemberOf(get(records, "token").entries, "token_amount").type.type)
    /\ (CalledFunction /\ ReadsEntry(get(functions, last.name)) /\ last.inputs = <<RecordRegisterValue(TokenValue)>>)
          => /\ last.result = Ok
             /\ get(last.stacks[1].registers, 1) = PlaintextRegisterValue(Literal("u64", 200))

(* The call of the record test returned 200u64 as a private value. *)
C20_Witness ==
    /\ CalledFunction
    /\ ReadsEntry(get(functions, last.name))
    /\ last.inputs = <<RecordRegisterValue(TokenValue)>>
    /\ last.outputs = <<PlaintextValue("Private", Literal("u64", 200))>>

C17_ConcurrentCallsIndependent ==
    \A t \in Threads :
        calls[t].pc = "done"
            => LET alone == evaluate(Program, calls[t].name, calls[t].inputs)
               IN  /\ calls[t].result = alone.result
                   /\ calls[t].outputs = alone.outputs
                   /\ calls[t].stacks = alone.stacks

(* Two calls of different functions are done, each with its output, each   *)
(* having taken a step while the other was running.                        *)
C17_Witness ==
    /\ calls[1].pc = "done" /\ calls[2].pc = "done"
    /\ calls[1].met /\ calls[2].met
    /\ calls[1].name = "foo" /\ calls[2].name = "compute"
    /\ calls[1].outputs = <<PlaintextValue("Private", Literal("field", 5))>>
    /\ calls[2].outputs = <<PlaintextValue("Private", Literal("u64", 200))>>

(* The names projected out of a token: its entry and a name it has not. *)
ProjectedNames == {"token_amount", "first"}

(* A function of one input r0 of the record type token that uses the       *)
(* member r0.<field> as the operands of its instruction or as the register *)
(* of its output.                                                          *)
ProjectingFunction(field, use) ==
    [name |-> "project",
     inputs |-> <<[register |-> Locator(0), value_type |-> RecordValueType("token")]>>,
     instructions |->
        IF use = "operand"
        THEN <<Instruction("add", <<RegisterOperand(Member(0, <<field>>)),
                                    RegisterOperand(Member(0, <<field>>))>>, Locator(1))>>
        ELSE <<>>,
     outputs |->
        IF use = "output"
        THEN <<[register |-> Member(0, <<field>>),
                value_type |-> PlaintextValueType("Private", LiteralType("u64"))]>>
        ELSE <<>>]

(* The last call was made on a record as first input. *)
CalledOnRecord ==
    /\ CalledFunction
    /\ Len(last.inputs) > 0
    /\ last.inputs[1].tag = "Record"

IsHeader(line) == line[1] \in {"interface", "record", "function"}

IsLine(character) == character # NL

(* The word that starts the declaration of a kind. *)
KindWord(definition) ==
    IF definition = "Interface" THEN "interface" ELSE IF definition = "Record" THEN "record" ELSE "function"

(* The text of the declaration that entry i of identifiers names. *)
DeclarationText(i) ==
    IF identifiers[i].val = "Interface" THEN Interface_fmt(get(interfaces, identifiers[i].key))
    ELSE IF identifiers[i].val = "Record" THEN RecordType_fmt(get(records, identifiers[i].key))
    ELSE Function_fmt(get(functions, identifiers[i].key))

(* The lines of the declarations from entry i of identifiers on. *)
RECURSIVE DeclaredLines(_)
DeclaredLines(i) ==
    IF i > Len(identifiers) THEN <<>> ELSE SelectSeq(DeclarationText(i), IsLine) \o DeclaredLines(i + 1)

(* C22: the text Display gives has one header line for each entry of       *)
(* identifiers, of the kind and the name of the entry, in the order of     *)
(* insertion whatever the kinds, and its lines are the lines of the        *)
(* declarations in that order, each once.                                  *)
C22_DisplayInInsertionOrder ==
    last.op = "display"
        => /\ last.result = Ok
           /\ Len(SelectSeq(last.text, IsHeader)) = Len(identifiers)
           /\ \A i \in 1..Len(identifiers) :
                 SelectSeq(last.text, IsHeader)[i] = <<KindWord(identifiers[i].val), identifiers[i].key>>
           /\ SelectSeq(last.text, IsLine) = DeclaredLines(1)

(* A program with a function added before an interface and a record was    *)
(* displayed, the function first.                                          *)
C22_Witness ==
    /\ last.op = "display"
    /\ Len(identifiers) >= 3
    /\ identifiers[1].val = "Function"
    /\ identifiers[2].val = "Interface"
    /\ identifiers[3].val = "Record"
    /\ SelectSeq(last.text, IsHeader)[1][1] = "function"
    /\ SelectSeq(last.text, IsHeader)[2][1] = "interface"

(* Each declaration from entry i of identifiers on, two newlines after it. *)
RECURSIVE Concatenated(_)
Concatenated(i) ==
    IF i > Len(identifiers) THEN <<>> ELSE DeclarationText(i) \o <<NL, NL>> \o Concatenated(i + 1)

(* A text without its newlines at the end. *)
RECURSIVE Stripped(_)
Stripped(string) ==
    IF Len(string) > 0 /\ string[Len(string)] = NL THEN Stripped(SubSeq(string, 1, Len(string) - 1))
    ELSE string

(* C23 as stated: the text Display gives is the declarations, two newlines *)
(* after each, with every newline at the end removed, so that it does not  *)
(* end with a newline.                                                     *)
C23_TrailingNewlinesStripped ==
    last.op = "display"
        => /\ last.text = Stripped(Concatenated(1))
           /\ (Len(last.text) > 0 => last.text[Len(last.text)] # NL)

(* C23: the text Display gives is the declarations, two newlines after     *)
(* each, with the last character removed: the text of a program that is    *)
(* not empty ends with one newline, the text of an empty program is empty. *)
C23_LastNewlineRemoved ==
    last.op = "display"
        => /\ Len(identifiers) > 0
                => /\ last.text \o <<NL>> = Concatenated(1)
                   /\ last.text[Len(last.text)] = NL
                   /\ last.text[Len(last.text) - 1] # NL
           /\ Len(identifiers) = 0 => last.text = <<>>

(* A program of two declarations was displayed: a blank line between them  *)
(* and one newline at the end.                                             *)
C23_Witness ==
    /\ last.op = "display"
    /\ Len(identifiers) = 2
    /\ last.text = DeclarationText(1) \o <<NL, NL>> \o DeclarationText(2) \o <<NL>>

(* The text of the display test: the interface message and the function    *)
(* compute, one blank line between them, one newline at the end.           *)
expected == Canonical(<<message_text, compute_message_text>>)

IsCanonical(string) == \E declarations \in DeclarationLists : string = Canonical(declarations)

(* C24: the text Display gives for a program built from a canonical text   *)
(* is that text, character for character.                                  *)
C24_CanonicalTextDisplayed ==
    [][(/\ last.op = "from_str"
        /\ last.result = Ok
        /\ IsCanonical(last.text)
        /\ last'.op = "display") => (last'.result = Ok /\ last'.text = last.text)]_vars

(* The program of the display test was displayed as the expected text. *)
C24_Witness ==
    /\ last.op = "display"
    /\ KeySeq(identifiers) = <<"message", "compute">>
    /\ last.text = expected
    /\ from_str(expected) = Return(Program, Ok)

(* C25 as stated: the text Display gives for a program, the empty one      *)
(* included, parses to that program.                                       *)
C25_RoundTrip ==
    last.op = "display" => from_str(last.text) = Return(Program, Ok)

(* C25: the text Display gives for a program of one declaration or more    *)
(* parses to that program, the five maps equal; the text of the empty      *)
(* program does not parse.                                                 *)
C25_RoundTripUnlessEmpty ==
    last.op = "display"
        => /\ Len(identifiers) > 0 => from_str(last.text) = Return(Program, Ok)
           /\ Len(identifiers) = 0 => from_str(last.text).result # Ok

(* A program of an interface, a record and two functions was displayed and *)
(* its text parses to it.                                                  *)
C25_Witness ==
    /\ last.op = "display"
    /\ Len(identifiers) = 4
    /\ Len(interfaces) = 1 /\ Len(records) = 1 /\ Len(functions) = 2
    /\ from_str(last.text).prog = Program

(* The header of a declaration text: its kind word and its name. *)
Header(declaration) == declaration[1]

(* The types the lines of a declaration text name, each with the word of   *)
(* the kind it has to be declared as: a record for an input or an output   *)
(* as a record, an interface for any other name that is no literal type.   *)
Referenced(declaration) ==
    {<<IF declaration[k][1] \in {"input", "output"} /\ declaration[k][4] = "record"
       THEN "record" ELSE "interface", declaration[k][3]>> :
        k \in {j \in 1..Len(declaration) :
                  /\ declaration[j][1] \in {"member", "entry", "input", "output"}
                  /\ declaration[j][3] \notin LiteralTypeNames}}

(* Each declaration has a name none before it has, and names only types    *)
(* that are declared before it.                                            *)
DeclaredInOrder(declarations) ==
    \A i \in 1..Len(declarations) :
        /\ \A j \in 1..(i - 1) : Header(declarations[j])[2] # Header(declarations[i])[2]
        /\ Referenced(declarations[i]) \subseteq {Header(declarations[j]) : j \in 1..(i - 1)}

(* C26: from_str gives a program exactly for the texts whose declarations  *)
(* can be added one after the other in the order of the text, and the      *)
(* program has them in that order; a text in which a declaration names a   *)
(* type declared later, or a name twice, gives no program, and neither     *)
(* does a text without a declaration.                                      *)
C26_AddedInTextualOrder ==
    last.op = "from_str"
        => /\ \A declarations \in DeclarationLists, gap \in 1..MaxNewlines, trailing \in 0..MaxNewlines :
                 last.text = Written(declarations, 1, gap, trailing)
                     => /\ last.result = Ok <=> DeclaredInOrder(declarations)
                        /\ last.result = Ok
                               => /\ Len(identifiers) = Len(declarations)
                                  /\ \A i \in 1..Len(declarations) :
                                        <<KindWord(identifiers[i].val), identifiers[i].key>>
                                            = Header(declarations[i])
           /\ (\E n \in 0..MaxNewlines : last.text = Newlines(n)) => last.result # Ok
           /\ last.result # Ok => Program = new

(* The text of the function compute followed by the interface message its  *)
(* input names was given to from_str, which gave no program.               *)
C26_Witness ==
    /\ last.op = "from_str"
    /\ last.text = Canonical(<<compute_message_text, message_text>>)
    /\ last.result # Ok
    /\ Program = new
    /\ from_str(Canonical(<<message_text, compute_message_text>>)).result = Ok

(***************************************************************************)
(* The declared types of the inputs and outputs of a function.             *)
(***************************************************************************)
(* The value type names an interface that interfaces does not hold, or a   *)
(* record that records does not hold.                                      *)
NamesUndeclared(value_type) ==
    IF value_type.tag = "Record" THEN value_type.id \notin Keys(records)
    ELSE value_type.type.tag = "Interface" /\ value_type.type.id \notin Keys(interfaces)

(* C27: the inputs and outputs of every function of the program name only  *)
(* interfaces that interfaces holds and records that records holds, and    *)
(* add_function refuses, changing nothing, every function with an input or *)
(* an output that names an interface missing from interfaces or a record   *)
(* missing from records, whatever the other maps hold under that name.     *)
C27_TypesDeclaredByKind ==
    /\ \A i \in 1..Len(functions) :
          /\ \A j \in 1..Len(functions[i].val.inputs) : ~NamesUndeclared(functions[i].val.inputs[j].value_type)
          /\ \A j \in 1..Len(functions[i].val.outputs) : ~NamesUndeclared(functions[i].val.outputs[j].value_type)
    /\ \A c \in OutputFunctionCandidates :
          (NamesUndeclared(c.inputs[1].value_type) \/ NamesUndeclared(c.outputs[1].value_type))
              => /\ add_function(Program, c).result # Ok
                 /\ add_function(Program, c).prog = Program

(* A function under a free name was refused for an input of an interface  *)
(* type whose name is the name of a declared record and of no interface.   *)
C27_Witness ==
    /\ last.op = "add_function"
    /\ last.result.msg = "Interface in function is not defined."
    /\ last.result.subject \in Keys(records) \ Keys(interfaces)
    /\ last.name \notin Keys(identifiers)

(***************************************************************************)
(* Outputs on input registers.                                             *)
(***************************************************************************)
(* The value an output of the value type gives for the value of an input. *)
Stamped(register_value, value_type) ==
    IF value_type.tag = "Record" THEN RecordOutputValue(register_value.record)
    ELSE PlaintextValue(value_type.tag, register_value.plaintext)

(* C28: add_function accepts a function under a free name whose output is  *)
(* on its input register and declares the type of the input, in any mode;  *)
(* and where a successful call of evaluate returns an output whose         *)
(* register is the register of an input, the value returned is the value   *)
(* passed for that input, in the mode the output declares.                 *)
C28_OutputOnInputRegister ==
    /\ \A c \in OutputFunctionCandidates :
          (/\ is_unique_name(Program, c.name)
           /\ ~is_reserved_name(Program, c.name)
           /\ value_type_defined(Program, c.inputs[1].value_type) = Ok
           /\ RegisterTypeOf(c.outputs[1].value_type) = RegisterTypeOf(c.inputs[1].value_type))
              => /\ add_function(Program, c).result = Ok
                 /\ contains_key(add_function(Program, c).prog.functions, c.name)
    /\ (CalledFunction /\ last.result = Ok)
          => LET function == get(functions, last.name)
             IN  \A i \in 1..Len(function.outputs), j \in 1..Len(function.inputs) :
                    function.outputs[i].register = function.inputs[j].register
                        => last.outputs[i] = Stamped(last.inputs[j], function.outputs[i].value_type)

(* A call of foo with two outputs returned its first input, declared      *)
(* public, in the other mode that its first output, on r0, declares.       *)
C28_Witness ==
    /\ CalledFunction
    /\ last.name = "foo"
    /\ last.result = Ok
    /\ Len(last.outputs) = 2
    /\ get(functions, "foo").outputs[1].register = Locator(0)
    /\ get(functions, "foo").outputs[1].value_type.tag # "Public"
    /\ last.outputs[1] = PlaintextValue(get(functions, "foo").outputs[1].value_type.tag, Two)
    /\ last.inputs[1] = PlaintextRegisterValue(Two)

(***************************************************************************)
(* The register types of the functions.                                    *)
(***************************************************************************)
(* C29: function_registers holds register types for the functions of the   *)
(* program and for nothing else, in the order of functions, and no call of *)
(* evaluate on a function of the program finds its registers missing.      *)
C29_RegistersOfEveryFunction ==
    /\ KeySeq(function_registers) = KeySeq(functions)
    /\ \A name \in Keys(functions), inputs \in InputLists :
          evaluate(Program, name, inputs).result.msg # "Function is missing its function registers"

(* A function was added after another declaration, and a call of it        *)
(* succeeds.                                                               *)
C29_Witness ==
    /\ last.op = "add_function"
    /\ last.result = Ok
    /\ Len(identifiers) > Len(functions)
    /\ contains_key(function_registers, last.name)
    /\ \E inputs \in InputLists : evaluate(Program, last.name, inputs).result = Ok

(***************************************************************************)
(* The inserts of the add operations.                                      *)
(***************************************************************************)
InsertedMaps == <<identifiers, interfaces, records, functions, function_registers>>

(* C30: a name that identifiers does not hold is a key of none of the      *)
(* five maps, so that none of the inserts of an add operation replaces an  *)
(* entry: no add operation returns the error of an existing entry, and     *)
(* every offered add that fails returns the program as it was given.       *)
C30_InsertsFindNoEntry ==
    /\ \A name \in Names \cup Keys(functions) \cup Keys(function_registers) :
          ~contains_key(identifiers, name)
              => \A i \in 1..Len(InsertedMaps) : ~insert(InsertedMaps[i], name, "").is_some
    /\ last.result.msg # "already exists in the program."
    /\ \A c \in InterfaceCandidates :
          LET added == add_interface(Program, c)
          IN  added.result.msg # "already exists in the program." /\ (added.result # Ok => added.prog = Program)
    /\ \A c \in RecordCandidates :
          LET added == add_record(Program, c)
          IN  added.result.msg # "already exists in the program." /\ (added.result # Ok => added.prog = Program)
    /\ \A c \in TypedFunctionCandidates :
          LET added == add_function(Program, c)
          IN  added.result.msg # "already exists in the program." /\ (added.result # Ok => added.prog = Program)

(* A function was added to a program that holds another declaration: its  *)
(* name went into three maps that did not hold it.                         *)
C30_Witness ==
    /\ last.op = "add_function"
    /\ last.result = Ok
    /\ Len(interfaces) + Len(records) > 0
    /\ contains_key(identifiers, last.name)
    /\ contains_key(functions, last.name)
    /\ contains_key(function_registers, last.name)
    /\ Len(identifiers) = Len(interfaces) + Len(records) + Len(functions)

(***************************************************************************)
(* The types of the destinations.                                          *)
(***************************************************************************)
(* Declared types of one input: literals, the interface message and the    *)
(* record token.                                                           *)
OperandInputTypes ==
    {PlaintextValueType("Private", LiteralType(kind)) : kind \in LiteralKinds}
    \cup {PlaintextValueType("Private", InterfaceType("message")), RecordValueType("token")}

(* Operands on the input r0, on its members and literals. *)
OfferedOperands ==
    {LiteralOperand(kind, 1) : kind \in LiteralKinds}
    \cup {RegisterOperand(Locator(0)), RegisterOperand(Member(0, <<"first">>)),
          RegisterOperand(Member(0, <<"token_amount">>))}

(* Functions of one input and one instruction, of any offered operands. *)
OperandFunctionCandidates ==
    {Function("a", <<Declared(Locator(0), input)>>, <<Instruction("add", <<first, second>>, Locator(1))>>, <<>>) :
        input \in OperandInputTypes, first \in OfferedOperands, second \in OfferedOperands}

(* The static types of the operands of the only instruction of a           *)
(* candidate, in the program as it is.                                     *)
CandidateOperandTypes(c) ==
    operand_types(Program, function_inputs(Program, c.inputs, 1, RegisterTypes_new).registers,
                  c.instructions[1].operands, 1, <<>>)

(* C31: for every instruction of every function of the program, the types  *)
(* of the operands are defined, output_type of them is defined, and it is  *)
(* the type function_registers holds for the destination; add_function     *)
(* fails on every offered function whose instruction has an output_type    *)
(* that fails, and accepts the others under the type output_type gives.    *)
C31_DestinationTypeIsOutputType ==
    /\ \A f \in 1..Len(functions) :
          \A i \in 1..Len(functions[f].val.instructions) :
              LET instruction == functions[f].val.instructions[i]
                  registers == get(function_registers, functions[f].key)
                  operands == operand_types(Program, registers, instruction.operands, 1, <<>>)
              IN  /\ operands.result = Ok
                  /\ output_type(instruction, operands.types).result = Ok
                  /\ contains_key(registers.destinations, instruction.destination.n)
                  /\ get(registers.destinations, instruction.destination.n)
                         = output_type(instruction, operands.types).type
    /\ \A c \in OperandFunctionCandidates :
          (/\ value_type_defined(Program, c.inputs[1].value_type) = Ok
           /\ CandidateOperandTypes(c).result = Ok)
              => IF output_type(c.instructions[1], CandidateOperandTypes(c).types).result = Ok
                 THEN /\ add_function(Program, c).result = Ok
                      /\ get(get(add_function(Program, c).prog.function_registers, "a").destinations, 1)
                             = output_type(c.instructions[1], CandidateOperandTypes(c).types).type
                 ELSE add_function(Program, c).result # Ok

(* The program holds the function compute, whose instruction adds two      *)
(* members of its input into r1 of type field, and it refuses a function   *)
(* that adds its input of type message to itself, for which output_type    *)
(* fails.                                                                  *)
C31_Witness ==
    /\ contains_key(functions, "compute")
    /\ contains_key(interfaces, "message")
    /\ get(functions, "compute").instructions[1].operands[1].register.tag = "Member"
    /\ get(get(function_registers, "compute").destinations, 1) = PlaintextRegisterType(LiteralType("field"))
    /\ \E c \in OperandFunctionCandidates :
          /\ c.inputs[1].value_type = PlaintextValueType("Private", InterfaceType("message"))
          /\ c.instructions[1].operands = <<RegisterOperand(Locator(0)), RegisterOperand(Locator(0))>>
          /\ CandidateOperandTypes(c).result = Ok
          /\ output_type(c.instructions[1], CandidateOperandTypes(c).types).result # Ok
          /\ add_function(Program, c).result # Ok

(***************************************************************************)
(* The inputs of a call against the declared inputs.                       *)
(***************************************************************************)
(* Values of the shape of a field, of a message and of a token. *)
FieldShaped == {PlaintextRegisterValue(Two), PlaintextRegisterValue(Three)}

MessageShaped == {PlaintextRegisterValue(MessageValue)}

TokenShaped == {RecordRegisterValue(TokenValue)}

(* Values of no declared shape: a literal of another kind, a message with  *)
(* a member too few, with another member name, with a member of another    *)
(* kind, a token without its entry and a token with an entry of another    *)
(* kind.                                                                   *)
Misshaped ==
    {PlaintextRegisterValue(Literal("u64", 2)),
     PlaintextRegisterValue(InterfaceValue(<<[name |-> "first", value |-> Two]>>)),
     PlaintextRegisterValue(InterfaceValue(<<[name |-> "first", value |-> Two], [name |-> "third", value |-> Three]>>)),
     PlaintextRegisterValue(InterfaceValue(<<[name |-> "first", value |-> Two],
                                             [name |-> "second", value |-> Literal("u64", 3)]>>)),
     RecordRegisterValue(RecordValue(TokenValue.owner, TokenValue.balance, <<>>)),
     RecordRegisterValue(RecordValue(TokenValue.owner, TokenValue.balance,
                                     <<[name |-> "token_amount", mode |-> "Private", value |-> Two]>>))}

ProbeValues == FieldShaped \cup MessageShaped \cup TokenShaped \cup Misshaped

(* The value has the shape of the declared type of an input of the         *)
(* evaluated functions (field, message or token), whatever its mode.       *)
Fits(register_value, value_type) ==
    IF value_type.tag = "Record" THEN value_type.id = "token" /\ register_value \in TokenShaped
    ELSE IF value_type.type = LiteralType("field") THEN register_value \in FieldShaped
    ELSE value_type.type = InterfaceType("message") /\ register_value \in MessageShaped

AllFit(inputs, declared) == \A i \in 1..Len(declared) : Fits(inputs[i], declared[i].value_type)

(* The call built no stack, ran no instruction and returned no output. *)
FailedBeforeInstructions(r) ==
    r.result # Ok /\ r.executed = 0 /\ r.stacks = <<>> /\ r.outputs = <<>>

(* C32: a call of a function of the program with as many values as         *)
(* declared inputs, one of them not of the shape of its declared type,     *)
(* fails with no stack built and no instruction run; with every value of   *)
(* the shape of its declared type the stack is built, in each declared     *)
(* mode.                                                                   *)
C32_InputsMatchedBeforeInstructions ==
    /\ (CalledFunction /\ Len(last.inputs) = Len(get(functions, last.name).inputs))
          => IF AllFit(last.inputs, get(functions, last.name).inputs)
             THEN last.stacks # <<>>
             ELSE FailedBeforeInstructions(last)
    /\ \A f \in 1..Len(functions) :
          \A inputs \in [1..Len(functions[f].val.inputs) -> ProbeValues] :
              IF AllFit(inputs, functions[f].val.inputs)
              THEN evaluate(Program, functions[f].key, inputs).stacks # <<>>
              ELSE FailedBeforeInstructions(evaluate(Program, functions[f].key, inputs))

(* A call of compute, whose input is declared a constant message, with a   *)
(* field for it failed before its instruction; with a message it succeeds. *)
C32_Witness ==
    /\ CalledFunction
    /\ last.name = "compute"
    /\ get(functions, "compute").inputs[1].value_type = PlaintextValueType("Constant", InterfaceType("message"))
    /\ last.inputs = <<PlaintextRegisterValue(Two)>>
    /\ FailedBeforeInstructions(last)
    /\ evaluate(Program, "compute", <<PlaintextRegisterValue(MessageValue)>>).result = Ok

(***************************************************************************)
(* The load of a member register.                                          *)
(***************************************************************************)
(* The plaintexts that the path leads to from a plaintext, one step for    *)
(* each name of the path from step i on: none when a step names no member. *)
RECURSIVE Reach(_, _, _)
Reach(plaintext, path, i) ==
    IF i > Len(path) THEN {plaintext}
    ELSE IF plaintext.tag # "Interface" THEN {}
    ELSE UNION {Reach(plaintext.members[k].value, path, i + 1) :
                   k \in {j \in 1..Len(plaintext.members) : plaintext.members[j].name = path[i]}}

(* The same from the value of a register: the first step of a record is    *)
(* into its entries.                                                       *)
ReachFrom(register_value, path) ==
    IF register_value.tag = "Plaintext" THEN Reach(register_value.plaintext, path, 1)
    ELSE UNION {Reach(register_value.record.entries[k].value, path, 2) :
                   k \in {j \in 1..Len(register_value.record.entries) :
                             register_value.record.entries[j].name = path[1]}}

ProbePaths ==
    {<<"first">>, <<"second">>, <<"third">>, <<"first", "second">>, <<"token_amount">>,
     <<"inner", "second">>, <<"inner", "third">>, <<"outer", "first">>}

(* A message inside an interface, and a stack that holds it in r0. *)
NestedValue == InterfaceValue(<<[name |-> "inner", value |-> MessageValue]>>)

NestedStack ==
    store([program |-> Program, register_types |-> RegisterTypes_new, registers |-> <<>>],
          Locator(0), PlaintextRegisterValue(NestedValue)).stack

(* The load of r0.path from the stack gives the plaintext the path leads   *)
(* to from the value of r0, and fails when the path leads nowhere.         *)
LoadsAlong(stack, path) ==
    LET loaded == load(stack, RegisterOperand(Member(0, path)))
        reached == ReachFrom(get(stack.registers, 0), path)
    IN  IF reached = {} THEN loaded.result # Ok
        ELSE loaded.result = Ok /\ loaded.value.tag = "Plaintext" /\ reached = {loaded.value.plaintext}

(* A function that returns the member second of its input message. *)
SecondOfMessage ==
    Function("a", <<Declared(Locator(0), PlaintextValueType("Private", InterfaceType("message")))>>, <<>>,
             <<Declared(Member(0, <<"second">>), PlaintextValueType("Private", LiteralType("field")))>>)

(* C33: the load of a member register from the stack of a call, or from a  *)
(* stack that holds a nested value, gives the value that the path leads to *)
(* from the value of its locator, step by step, and fails when a step      *)
(* names no member; the stack of a call holds its inputs unchanged and one *)
(* register for each instruction that ran, none for a member that was      *)
(* read; an output on a member register returns the member.                *)
C33_MemberLoadProjects ==
    /\ (CalledFunction /\ last.stacks # <<>> /\ contains_key(last.stacks[1].registers, 0))
          => /\ \A path \in ProbePaths : LoadsAlong(last.stacks[1], path)
             /\ KeySeq(last.stacks[1].registers) = [i \in 1..(Len(last.inputs) + last.executed) |-> i - 1]
             /\ \A i \in 1..Len(last.inputs) : get(last.stacks[1].registers, i - 1) = last.inputs[i]
    /\ \A path \in ProbePaths : LoadsAlong(NestedStack, path)
    /\ contains_key(interfaces, "message")
          => evaluate(add_function(Program, SecondOfMessage).prog, "a", <<PlaintextRegisterValue(MessageValue)>>).outputs
                 = <<PlaintextValue("Private", Three)>>

(* The call of the interface test: compute loaded the members first and    *)
(* second of the message in r0 and returned 5field; the stack holds r0 and *)
(* r1 only.                                                                *)
C33_Witness ==
    /\ CalledFunction
    /\ last.name = "compute"
    /\ last.inputs = <<PlaintextRegisterValue(MessageValue)>>
    /\ last.outputs = <<PlaintextValue("Private", Literal("field", 5))>>
    /\ KeySeq(last.stacks[1].registers) = <<0, 1>>
    /\ load(last.stacks[1], RegisterOperand(Member(0, <<"second">>))).value = PlaintextRegisterValue(Three)
    /\ load(last.stacks[1], RegisterOperand(Member(0, <<"third">>))).result # Ok

(***************************************************************************)
(* The registers of a call are written once.                               *)
(***************************************************************************)
AlreadyAssigned == Err("Register is already assigned.", "")

(* Functions of one field input and two instructions, with every choice of *)
(* the two destinations among r0, r1 and r2.                               *)
DestinationLocators == 0..2

StoringCandidates ==
    {Function("a", <<Declared(Locator(0), PlaintextValueType("Private", LiteralType("field")))>>,
              <<Instruction("add", <<RegisterOperand(Locator(0)), RegisterOperand(Locator(0))>>, Locator(first)),
                Instruction("add", <<RegisterOperand(Locator(0)), RegisterOperand(Locator(0))>>, Locator(second))>>,
              <<>>) :
        first \in DestinationLocators, second \in DestinationLocators}

(* The locators 0..k of a function of the program, in order. *)
LocatorsOf(function_name) ==
    [i \in 1..(Len(get(functions, function_name).inputs) + Len(get(functions, function_name).instructions))
        |-> i - 1]

(* The call of a candidate that add_function accepts stores r0, r1 and r2  *)
(* once each.                                                              *)
StoredOnce(added) ==
    added.result = Ok
        => LET r == evaluate(added.prog, "a", <<PlaintextRegisterValue(Two)>>)
           IN  r.result = Ok /\ KeySeq(r.stacks[1].registers) = <<0, 1, 2>>

(* C34: a store to a locator of the stack of a call that holds a value     *)
(* fails and leaves the stack as it is; no call of a function ends with    *)
(* the failure of a second store, and a call that succeeds has stored each *)
(* locator 0..k of the function once, in order; the same holds for every   *)
(* function of two instructions that add_function accepts.                 *)
C34_RegistersWrittenOnce ==
    /\ (CalledFunction /\ last.stacks # <<>>)
          => \A i \in 1..Len(last.stacks[1].registers) :
                LET again == store(last.stacks[1], Locator(last.stacks[1].registers[i].key),
                                   PlaintextRegisterValue(Three))
                IN  again.result = AlreadyAssigned /\ again.stack = last.stacks[1]
    /\ CalledFunction => last.result # AlreadyAssigned
    /\ (CalledFunction /\ last.result = Ok)
          => KeySeq(last.stacks[1].registers) = LocatorsOf(last.name)
    /\ \A c \in StoringCandidates : StoredOnce(add_function(Program, c))

(* A call of foo that succeeded: r0 and r1 were stored from the inputs and *)
(* r2 by the instruction, and a second store to r2 fails.                  *)
C34_Witness ==
    /\ CalledFunction
    /\ last.name = "foo"
    /\ last.result = Ok
    /\ KeySeq(last.stacks[1].registers) = <<0, 1, 2>>
    /\ store(last.stacks[1], Locator(2), PlaintextRegisterValue(Three)).result = AlreadyAssigned
    /\ \E c \in StoringCandidates : add_function(Program, c).result = Ok

(***************************************************************************)
(* The instructions of a call run once each, in source order.              *)
(***************************************************************************)
(* A function of two instructions, the second reading what the first      *)
(* stored: r1 is r0 + r0 and r2 is r1 + r0.                                *)
ChainedFunction ==
    Function("a", <<Declared(Locator(0), PlaintextValueType("Private", LiteralType("field")))>>,
             <<Instruction("add", <<RegisterOperand(Locator(0)), RegisterOperand(Locator(0))>>, Locator(1)),
               Instruction("add", <<RegisterOperand(Locator(1)), RegisterOperand(Locator(0))>>, Locator(2))>>,
             <<Declared(Locator(2), PlaintextValueType("Private", LiteralType("field")))>>)

(* The locators that a call holds after its first k instructions: those of *)
(* the inputs, then the destination of each instruction in source order.   *)
StoredInOrder(function, k) ==
    [i \in 1..(Len(function.inputs) + k) |->
        IF i <= Len(function.inputs) THEN function.inputs[i].register.n
        ELSE function.instructions[i - Len(function.inputs)].destination.n]

(* The destination of the instruction holds the sum of its two operands as *)
(* the stack holds them.                                                   *)
RanOn(stack, instruction) ==
    LET first == load(stack, instruction.operands[1])
        second == load(stack, instruction.operands[2])
    IN  /\ first.result = Ok /\ second.result = Ok
        /\ get(stack.registers, instruction.destination.n)
              = PlaintextRegisterValue(Literal(first.value.plaintext.kind,
                                               first.value.plaintext.value + second.value.plaintext.value))

(* What the call r of the function did: as many instructions as it counts, *)
(* each once and in source order, none reading a register without a value; *)
(* all of them and then one output for each declared output when it        *)
(* succeeds; no more stores and loads than inputs, instructions and        *)
(* outputs.                                                                *)
RanInOrder(function, r) ==
    /\ r.executed \in 0..Len(function.instructions)
    /\ r.result # Err("Register is not assigned.", "")
    /\ r.stacks = <<>> => r.executed = 0 /\ r.result # Ok
    /\ r.stacks # <<>>
          => /\ KeySeq(r.stacks[1].registers) = StoredInOrder(function, r.executed)
             /\ \A i \in 1..r.executed : RanOn(r.stacks[1], function.instructions[i])
    /\ r.result = Ok
          => /\ r.executed = Len(function.instructions)
             /\ Len(r.outputs) = Len(function.outputs)
    /\ Len(r.stacks) <= 1
    /\ r.executed + Len(r.outputs) <= Len(function.instructions) + Len(function.outputs)

ValSeq(m) == [i \in 1..Len(m) |-> m[i].val]

ChainedRan(added) ==
    LET r == evaluate(added.prog, "a", <<PlaintextRegisterValue(Two)>>)
    IN  /\ added.result = Ok
        /\ RanInOrder(ChainedFunction, r)
        /\ r.result = Ok
        /\ r.executed = 2
        /\ ValSeq(r.stacks[1].registers)
              = <<PlaintextRegisterValue(Two), PlaintextRegisterValue(Literal("field", 4)),
                  PlaintextRegisterValue(Literal("field", 6))>>
        /\ r.outputs = <<PlaintextValue("Private", Literal("field", 6))>>

(* C35: a call of a function runs its instructions once each and in       *)
(* source order, each on operands that hold a value, then collects one     *)
(* output for each declared output, and ends after no more steps than the  *)
(* function has inputs, instructions and outputs; in a function of two     *)
(* instructions the second reads what the first stored.                    *)
C35_InstructionsOnceInOrder ==
    /\ CalledFunction => RanInOrder(get(functions, last.name), last)
    /\ ChainedRan(add_function(Program, ChainedFunction))

(* A call of foo ran its one instruction and collected its outputs. *)
C35_Witness ==
    /\ CalledFunction
    /\ last.name = "foo"
    /\ last.result = Ok
    /\ last.executed = 1
    /\ Len(get(functions, "foo").outputs) > 0
    /\ Len(last.outputs) = Len(get(functions, "foo").outputs)
    /\ RanOn(last.stacks[1], get(functions, "foo").instructions[1])

(***************************************************************************)
(* The values of the registers of a call have the types of the registers.  *)
(***************************************************************************)
(* The value has the register type, in the program P. *)
Agrees(P, register_value, register_type) ==
    IF register_type.tag = "Plaintext"
    THEN register_value.tag = "Plaintext" /\ matches_plaintext(P, register_value.plaintext, register_type.type)
    ELSE register_value.tag = "Record" /\ matches_record(P, register_value.record, register_type.id)

(* The type that the register types of a function keep for a locator. *)
StaticType(register_types, n) ==
    IF contains_key(register_types.inputs, n) THEN RegisterTypeOf(get(register_types.inputs, n))
    ELSE get(register_types.destinations, n)

OutputTypeErrors ==
    {Err("Register value does not match the expected output type", ""),
     Err("Value does not match the value type.", "")}

(* What the call r in the program P did with the register types: every     *)
(* register of its stack holds a value of its type, and it failed on no    *)
(* output.                                                                 *)
Sound(P, register_types, r) ==
    /\ r.result \notin OutputTypeErrors
    /\ r.stacks # <<>>
          => /\ r.result = Ok
             /\ \A i \in 1..Len(r.stacks[1].registers) :
                   Agrees(P, r.stacks[1].registers[i].val,
                          StaticType(register_types, r.stacks[1].registers[i].key))

(* Functions of one input that return one register: each type of input,    *)
(* each register and member of it, each type of output.                    *)
SoundInputs ==
    {[value_type |-> PlaintextValueType("Private", LiteralType("field")), value |-> PlaintextRegisterValue(Two)],
     [value_type |-> PlaintextValueType("Public", InterfaceType("message")),
      value |-> PlaintextRegisterValue(MessageValue)],
     [value_type |-> RecordValueType("token"), value |-> RecordRegisterValue(TokenValue)]}

ReturnedRegisters == {Locator(0), Locator(1), Member(0, <<"first">>), Member(0, <<"token_amount">>)}

ReturnedTypes ==
    {PlaintextValueType("Private", LiteralType("field")), PlaintextValueType("Public", LiteralType("u64")),
     PlaintextValueType("Constant", InterfaceType("message")), RecordValueType("token")}

Returning(input, register, value_type) ==
    Function("a", <<Declared(Locator(0), input.value_type)>>,
             IF input.value_type.tag = "Private"
             THEN <<Instruction("add", <<RegisterOperand(Locator(0)), RegisterOperand(Locator(0))>>, Locator(1))>>
             ELSE <<>>,
             <<Declared(register, value_type)>>)

(* The call of a function that add_function accepted, on the value of the  *)
(* type of its input, returns its output.                                  *)
ReturnsWhenAccepted(added, input) ==
    added.result = Ok
        => LET r == evaluate(added.prog, "a", <<input.value>>)
           IN  /\ Sound(added.prog, get(added.prog.function_registers, "a"), r)
               /\ r.result = Ok
               /\ Len(r.outputs) = 1

(* C36: in every call whose inputs matched the declared inputs, each       *)
(* register holds a value of the type that the register types of the       *)
(* function keep for it, and the call fails neither on the pairing of a    *)
(* register value with its output type nor on the check of an output       *)
(* against its type; every function of one output that add_function        *)
(* accepts returns that output on an input of its type.                    *)
C36_RegistersHoldTheirTypes ==
    /\ CalledFunction => Sound(Program, get(function_registers, last.name), last)
    /\ \A input \in SoundInputs, register \in ReturnedRegisters, value_type \in ReturnedTypes :
          ReturnsWhenAccepted(add_function(Program, Returning(input, register, value_type)), input)

(* A call of compute on a token returned its output: r0 holds a token and  *)
(* r1 a u64; a function that returns a member of a message is accepted in  *)
(* a program that declares message, or one that returns the token.         *)
C36_Witness ==
    /\ CalledFunction
    /\ last.name = "compute"
    /\ last.inputs = <<RecordRegisterValue(TokenValue)>>
    /\ last.result = Ok
    /\ Len(last.outputs) > 0
    /\ StaticType(get(function_registers, "compute"), 0) = RecordRegisterType("token")
    /\ StaticType(get(function_registers, "compute"), 1) = PlaintextRegisterType(LiteralType("u64"))
    /\ \E input \in SoundInputs, register \in ReturnedRegisters, value_type \in ReturnedTypes :
          /\ register.tag = "Member" \/ value_type.tag = "Record"
          /\ add_function(Program, Returning(input, register, value_type)).result = Ok

(***************************************************************************)
(* The program only grows.                                                 *)
(***************************************************************************)
(* Every entry of the sequence before is the entry at the same position of *)
(* the sequence after.                                                     *)
Kept(before, after) ==
    /\ Len(before) <= Len(after)
    /\ \A i \in 1..Len(before) : after[i] = before[i]

(* The sequence after is the sequence before and one entry of that key at  *)
(* its end.                                                                *)
AppendedOne(before, after, key) ==
    /\ Len(after) = Len(before) + 1
    /\ Kept(before, after)
    /\ after[Len(after)].key = key

(* What fmt pushes for the program, declaration by declaration. *)
Pushed(P) == push_str(P, 1, <<>>).text

(* The map of the kind of an add operation. *)
MapOf(op, P) ==
    IF op = "add_interface" THEN P.interfaces
    ELSE IF op = "add_record" THEN P.records
    ELSE P.functions

(* C37: every step of the program keeps each entry of the five maps, with  *)
(* its key and its content, at its position; an add that succeeds puts one *)
(* entry of its name at the end of identifiers and one at the end of the   *)
(* map of its kind, leaves the maps of the other kinds as they were, and   *)
(* what Display wrote before is the beginning of what it writes after;     *)
(* any other step leaves the number of declarations as it was.             *)
C37_ProgramOnlyGrows ==
    [][/\ \A i \in 1..Len(maps) : Kept(maps[i], maps'[i])
       /\ (last'.op \in AddOps /\ last'.result = Ok)
             => /\ AppendedOne(identifiers, identifiers', last'.name)
                /\ AppendedOne(MapOf(last'.op, Program), MapOf(last'.op, Program'), last'.name)
                /\ \A op \in AddOps \ {last'.op} : MapOf(op, Program') = MapOf(op, Program)
                /\ Kept(Pushed(Program), Pushed(Program'))
                /\ Len(Pushed(Program')) > Len(Pushed(Program))
       /\ ~(last'.op \in AddOps /\ last'.result = Ok)
             => Len(identifiers') = Len(identifiers)]_vars

(* A declaration was added after another of another kind: the first is     *)
(* still the first of identifiers and the new one is the last.             *)
C37_Witness ==
    /\ last.op \in AddOps
    /\ last.result = Ok
    /\ Len(identifiers) = 2
    /\ identifiers[2].key = last.name
    /\ identifiers[1].val # identifiers[2].val
    /\ Len(MapOf(last.op, Program)) = 1
    /\ Len(Pushed(Program)) > 0

====
